---- MODULE Spec2Model ----
(***************************************************************************)
(* A model of rust-bdecode: the integer grammar (src/src/parse_int.rs),    *)
(* the packed token and stack-frame records (src/src/token.rs,             *)
(* src/src/stack_frame.rs), the tokenizing parser bdecode and the          *)
(* list/dict/int/string handles built on the token array (src/src/lib.rs). *)
(* Bytes are their ASCII codes; buffers are sequences of bytes.  Rust      *)
(* indexes from 0, sequences here from 1: buf[k] of the source is buf[k+1] *)
(* here, and the same for the token array and the container stack.         *)
(***************************************************************************)
EXTENDS Integers, Sequences, FiniteSets

VARIABLES
    buf,      \* the input buffer handed to bdecode
    pc,       \* "scan" (inside the while loop), "ok", "err", or "idle"
    off,      \* scan cursor
    sp,       \* number of open containers
    stack,    \* Vec<StackFrame>
    tokens,   \* Vec<Token>
    error,    \* the BdecodeError returned, "None" otherwise
    handle,   \* the list/dict/int/string handle the caller holds
    iter,     \* the list or dict iterator the caller holds
    ret,      \* what the last accessor call returned
    lit,      \* the literal handed to decode_int / check_integer directly
    num,      \* the i64 the literal was rendered from, and the prefix put before it
    ires,     \* result of decode_int(lit) and check_integer(lit)
    probe     \* a buffer known by its length alone, and what bdecode's pre-checks say of it

vars == <<buf, pc, off, sp, stack, tokens, error, handle, iter, ret, lit, num, ires, probe>>

----------------------------------------------------------------------------
(* Bytes the source names.                                                 *)
BYTE_d == 100
BYTE_l == 108
BYTE_i == 105
BYTE_e == 101
BYTE_colon == 58
BYTE_minus == 45
BYTE_plus == 43
BYTE_space == 32
BYTE_0 == 48
BYTE_7 == 55
BYTE_9 == 57
BYTE_a == 97
BYTE_b == 98


\* an index of the source (0-based) into a sequence
InRange(s, i) == 0 <= i /\ i < Len(s)
At(s, i) == s[i + 1]

\* Option<T>: None is the empty tuple, Some(x) the one-tuple <<x>>
Some(x) == <<x>>
None == <<>>
IsSome(o) == o # <<>>
Unwrap(o) == o[1]

\* s[a..b) of the source: 0-based, end exclusive
Slice(s, a, b) == SubSeq(s, a + 1, b)

----------------------------------------------------------------------------
(* Bounds of the model.                                                    *)
MaxSmall == 12      \* every n in -MaxSmall..MaxSmall is rendered and decoded
MaxLitLen == 3      \* raw literals over LitAlphabet up to this length
MaxRaw == 4         \* every byte string over Alphabet up to this length is decoded
MaxLen == 10        \* every well-formed encoding up to this length is decoded
MaxIndex == 3       \* get is called with every index in 0..MaxIndex
MaxDamaged == 7     \* well-formed encodings up to this length get one byte replaced
MaxExtended == 6    \* well-formed encodings up to this length get trailing bytes
MaxTail == 1        \* number of trailing bytes appended
LimitSlack == 2     \* buffer lengths this close to 0 and to MAX_OFFSET are probed
MaxPrefixDigits == 9 \* length prefixes of 1 to this many digits are probed
FieldSlack == 1     \* token fields this close to their limits are packed

----------------------------------------------------------------------------
(* i64.  TLC's integers are 32 bits wide, so an i64 is kept as sign and    *)
(* magnitude in three limbs of seven decimal digits:                       *)
(* |v| = hi * 10^14 + mid * 10^7 + lo.  Zero has neg = FALSE.              *)
LimbBase == 10 * 1000 * 1000

I64(neg, hi, mid, lo) == [neg |-> neg, hi |-> hi, mid |-> mid, lo |-> lo]
I64Zero == I64(FALSE, 0, 0, 0)
\* i64::MAX = 9223372036854775807, i64::MIN = -9223372036854775808
I64_MAX == I64(FALSE, 92233, 7203685, 4775807)
I64_MIN == I64(TRUE, 92233, 7203685, 4775808)

\* a magnitude given limb by limb, lo and mid possibly beyond one limb
MkI64(neg, hi, mid, lo) == I64(neg /\ (hi # 0 \/ mid # 0 \/ lo # 0), hi, mid, lo)
Carry(neg, hi, mid, lo) == MkI64(neg, hi + (mid \div LimbBase), mid % LimbBase, lo)
Normalize(neg, hi, mid, lo) == Carry(neg, hi, mid + (lo \div LimbBase), lo % LimbBase)

MagLeq(a, b) ==
    \/ a.hi < b.hi
    \/ a.hi = b.hi /\ a.mid < b.mid
    \/ a.hi = b.hi /\ a.mid = b.mid /\ a.lo <= b.lo

\* whether a sign-and-magnitude value is representable as an i64
FitsI64(v) == IF v.neg THEN MagLeq(v, I64_MIN) ELSE MagLeq(v, I64_MAX)

\* a range check that is symmetric about zero, leaving out i64::MIN
checked_symmetric(r) == IF FitsI64(r) /\ r # I64_MIN THEN Some(r) ELSE None

\* Some(r) when r is representable, None when the operation overflowed
checked(r) == IF FitsI64(r) THEN Some(r) ELSE None

\* i64::checked_mul(10): the sign is kept, the magnitude is multiplied
checked_mul_10(v) == checked(Normalize(v.neg, 10 * v.hi, 10 * v.mid, 10 * v.lo))

\* i64::checked_add(digit) on a non-negative accumulator
checked_add(v, digit) == checked(Normalize(FALSE, v.hi, v.mid, v.lo + digit))

\* the subtraction done on the magnitude as a positive number, negated after
checked_sub_negated(v, digit) ==
    IF IsSome(checked(Normalize(FALSE, v.hi, v.mid, v.lo + digit)))
    THEN Some(Normalize(TRUE, v.hi, v.mid, v.lo + digit))
    ELSE None

\* i64::checked_sub(digit) on a non-positive accumulator
checked_sub(v, digit) == checked(Normalize(TRUE, v.hi, v.mid, v.lo + digit))

\* i64 -> usize (TryInto): fails on a negative value
I64ToUsize(v) == IF v.neg THEN None ELSE Some(v)

\* a usize-converted i64 compared with a small count
I64GreaterThan(v, n) ==
    \/ v.hi > 0
    \/ v.mid > n \div LimbBase
    \/ v.mid = n \div LimbBase /\ v.lo > n % LimbBase

\* the usize behind a converted i64 that is known to be at most a buffer length
UsizeOf(v) == v.mid * LimbBase + v.lo

\* i64::to_string: the canonical decimal rendering
RECURSIVE DigitsPad(_, _)
DigitsPad(x, w) ==
    IF w = 0 THEN <<>> ELSE Append(DigitsPad(x \div 10, w - 1), BYTE_0 + (x % 10))

RECURSIVE StripZeros(_)
StripZeros(s) == IF Len(s) > 1 /\ s[1] = BYTE_0 THEN StripZeros(Tail(s)) ELSE s

to_string(v) ==
    (IF v.neg THEN <<BYTE_minus>> ELSE <<>>)
        \o StripZeros(DigitsPad(v.hi, 5) \o DigitsPad(v.mid, 7) \o DigitsPad(v.lo, 7))

----------------------------------------------------------------------------
(* parse_int.rs                                                            *)

is_numeric(byte) == (48 <= byte) /\ (byte <= 57)

MAX_BYTES_COMMON ==
    <<57, 50, 50, 51, 51, 55, 50, 48, 51, 54, 56, 53, 52, 55, 55, 53, 56, 48>>

will_integer_fit_i64(bytes, negative) ==
    LET num_digits == Len(bytes) IN
    IF num_digits > 20 THEN FALSE
    ELSE IF num_digits <= 18 THEN TRUE
    ELSE LET differ == {k \in 1..18 : bytes[k] # MAX_BYTES_COMMON[k]}
             first  == CHOOSE k \in differ : \A j \in differ : k <= j
             last_byte == bytes[19]
             last_byte_max == BYTE_7 + (IF negative THEN 1 ELSE 0)
         IN  IF differ # {}
             THEN bytes[first] < MAX_BYTES_COMMON[first]
             ELSE last_byte <= last_byte_max

check_integer(bytes) ==
    IF Len(bytes) = 0 THEN "UnexpectedEof"
    ELSE LET negative == bytes[1] = BYTE_minus
             numeric_part == IF negative THEN Tail(bytes) ELSE bytes
         IN  IF negative /\ Len(bytes) = 1 THEN "ExpectedDigit"
             ELSE IF ~(\A k \in 1..Len(numeric_part) : is_numeric(numeric_part[k]))
                  THEN "ExpectedDigit"
             ELSE IF ~will_integer_fit_i64(numeric_part, negative) THEN "Overflow"
             ELSE "Ok"

Ok(v) == [err |-> "Ok", val |-> v]
Err(e) == [err |-> e, val |-> I64Zero]

\* the for loop of decode_int_no_sign, from byte k (1-based) on: the digit
\* tests (DecodeLoop), the multiplication (DecodeMul, m its result) and the
\* addition or subtraction (DecodeAdd, r its result)
RECURSIVE DecodeLoop(_, _, _, _, _), DecodeMul(_, _, _, _, _), DecodeAdd(_, _, _, _, _)
DecodeLoop(bytes, k, negative, has_encountered_nonzero, result) ==
    IF k > Len(bytes) THEN Ok(result)
    ELSE IF ~is_numeric(bytes[k]) THEN Err("ExpectedDigit")
    ELSE IF bytes[k] - 48 = 0 /\ ~has_encountered_nonzero THEN Err("LeadingZero")
    ELSE DecodeMul(bytes, k, negative, has_encountered_nonzero \/ bytes[k] - 48 # 0,
                   checked_mul_10(result))

DecodeMul(bytes, k, negative, has_encountered_nonzero, m) ==
    IF ~IsSome(m) THEN Err("Overflow")
    ELSE DecodeAdd(bytes, k, negative, has_encountered_nonzero,
                   IF negative THEN checked_sub(Unwrap(m), bytes[k] - 48)
                               ELSE checked_add(Unwrap(m), bytes[k] - 48))

DecodeAdd(bytes, k, negative, has_encountered_nonzero, r) ==
    IF ~IsSome(r) THEN Err("Overflow")
    ELSE DecodeLoop(bytes, k + 1, negative, has_encountered_nonzero, Unwrap(r))

\* the loop entered as if a nonzero digit had already been seen
decode_int_no_sign_lenient(bytes, negative) ==
    DecodeLoop(bytes, 1, negative, TRUE, I64Zero)

decode_int_no_sign(bytes, negative) ==
    IF Len(bytes) = 1 /\ bytes[1] = 48 THEN Ok(I64Zero)
    ELSE DecodeLoop(bytes, 1, negative, FALSE, I64Zero)

\* lines 127-130 of decode_int, for the result of the '-' arm
negative_checked(r) ==
    IF r.err # "Ok" THEN r
    ELSE IF r.val = I64Zero THEN Err("NegativeZero")
    ELSE r

decode_int(bytes) ==
    IF bytes = <<>> THEN Err("UnexpectedEof")
    ELSE IF bytes[1] = BYTE_minus
         THEN negative_checked(decode_int_no_sign(Tail(bytes), TRUE))
    ELSE IF is_numeric(bytes[1]) THEN decode_int_no_sign(bytes, FALSE)
    ELSE Err("ExpectedDigit")

----------------------------------------------------------------------------
(* token.rs: the packed fields, kept as a record with the same limits.     *)
MAX_OFFSET == 536870911
MAX_NEXT_ITEM == 536870911
MAX_HEADER == 7

TokenType == {"Dict", "List", "Str", "Int", "End"}

\* Token::new: Err(LimitExceeded) is None here
Token_new(offset, token_type, next_item, header) ==
    IF (offset > MAX_OFFSET) \/ (next_item > MAX_NEXT_ITEM) \/ (header > MAX_HEADER)
    THEN None
    ELSE Some([offset |-> offset, token_type |-> token_type,
               next_item |-> next_item, header |-> header])

\* Token::set_next_item: Err(LimitExceeded) is None here
set_next_item(t, new_next_item) ==
    IF new_next_item > MAX_NEXT_ITEM THEN None
    ELSE Some([t EXCEPT !.next_item = new_next_item])

\* The same token as token.rs packs it: the u64 `inner` is the sequence of
\* its 64 bits, bit k at index k + 1.
RECURSIVE PowerOfTwo(_)
PowerOfTwo(k) == IF k = 0 THEN 1 ELSE 2 * PowerOfTwo(k - 1)
WordBits == 64
\* `x as u64` of a usize below 2^31
AsU64(x) == [k \in 1..WordBits |-> IF k <= 31 THEN (x \div PowerOfTwo(k - 1)) % 2 ELSE 0]
\* a u64 constant from its sixteen hexadecimal digits, the highest first
FromHex(digits) ==
    [k \in 1..WordBits |->
        (digits[16 - ((k - 1) \div 4)] \div PowerOfTwo((k - 1) % 4)) % 2]
ShiftLeft(w, n) == [k \in 1..WordBits |-> IF k - n >= 1 THEN w[k - n] ELSE 0]
ShiftRight(w, n) == [k \in 1..WordBits |-> IF k + n <= WordBits THEN w[k + n] ELSE 0]
BitOr(a, b) == [k \in 1..WordBits |-> IF a[k] = 1 \/ b[k] = 1 THEN 1 ELSE 0]
BitAnd(a, b) == [k \in 1..WordBits |-> IF a[k] = 1 /\ b[k] = 1 THEN 1 ELSE 0]
BitNot(a) == [k \in 1..WordBits |-> 1 - a[k]]
\* `w as usize`, for a word below 2^31
RECURSIVE SumBits(_, _)
SumBits(w, k) == IF k = 0 THEN 0 ELSE w[k] * PowerOfTwo(k - 1) + SumBits(w, k - 1)
AsUsize(w) == SumBits(w, 31)

OFFSET_MASK == FromHex(<<15, 15, 15, 15, 15, 15, 15, 8, 0, 0, 0, 0, 0, 0, 0, 0>>)
NEXT_ITEM_MASK == FromHex(<<0, 0, 0, 0, 0, 0, 0, 7, 15, 15, 15, 15, 15, 15, 12, 0>>)
HEADER_MASK == FromHex(<<0, 0, 0, 0, 0, 0, 0, 0, 0, 0, 0, 0, 0, 0, 3, 8>>)
TYPE_MASK == FromHex(<<0, 0, 0, 0, 0, 0, 0, 0, 0, 0, 0, 0, 0, 0, 0, 7>>)
OFFSET_OFFSET == 35
NEXT_ITEM_OFFSET == 6
HEADER_OFFSET == 3
TYPE_OFFSET == 0

\* `token_type as u64`
TokenTypeCode(token_type) ==
    CASE token_type = "Dict" -> 1 [] token_type = "List" -> 2 [] token_type = "Str" -> 3
      [] token_type = "Int" -> 4 [] token_type = "End" -> 5

\* a constructor that lets any next_item through
Token_new_inner_unchecked(offset, token_type, next_item, header) ==
    IF (offset > MAX_OFFSET) \/ (header > MAX_HEADER)
    THEN None
    ELSE Some(BitOr(BitOr(ShiftLeft(AsU64(offset), OFFSET_OFFSET),
                          ShiftLeft(AsU64(next_item), NEXT_ITEM_OFFSET)),
                    BitOr(ShiftLeft(AsU64(header), HEADER_OFFSET),
                          ShiftLeft(AsU64(TokenTypeCode(token_type)), TYPE_OFFSET))))

\* Token::new, the word it builds
Token_new_inner(offset, token_type, next_item, header) ==
    IF (offset > MAX_OFFSET) \/ (next_item > MAX_NEXT_ITEM) \/ (header > MAX_HEADER)
    THEN None
    ELSE Some(BitOr(BitOr(ShiftLeft(AsU64(offset), OFFSET_OFFSET),
                          ShiftLeft(AsU64(next_item), NEXT_ITEM_OFFSET)),
                    BitOr(ShiftLeft(AsU64(header), HEADER_OFFSET),
                          ShiftLeft(AsU64(TokenTypeCode(token_type)), TYPE_OFFSET))))

\* Token::offset, next_item, header and token_type
Token_offset(inner) == AsUsize(ShiftRight(BitAnd(inner, OFFSET_MASK), OFFSET_OFFSET))
Token_next_item(inner) == AsUsize(ShiftRight(BitAnd(inner, NEXT_ITEM_MASK), NEXT_ITEM_OFFSET))
Token_header(inner) == AsUsize(ShiftRight(BitAnd(inner, HEADER_MASK), HEADER_OFFSET))
Token_token_type(inner) ==
    LET type_int == AsUsize(ShiftRight(BitAnd(inner, TYPE_MASK), TYPE_OFFSET)) IN
    CASE type_int = 1 -> "Dict" [] type_int = 2 -> "List" [] type_int = 3 -> "Str"
      [] type_int = 4 -> "Int" [] type_int = 5 -> "End" [] OTHER -> "panic"

\* Token::set_next_item on the word: the word after the call, and whether
\* the call returned Err(LimitExceeded)
Token_set_next_item(inner, new_next_item) ==
    IF new_next_item > MAX_NEXT_ITEM THEN [inner |-> inner, error |-> "LimitExceeded"]
    ELSE [inner |-> BitOr(BitAnd(inner, BitNot(NEXT_ITEM_MASK)),
                          ShiftLeft(AsU64(new_next_item), NEXT_ITEM_OFFSET)),
          error |-> "None"]

\* the number of bytes from a string token's offset to its first payload
\* byte: the stored header leaves out the two bytes every prefix has
start_offset(t) == t.header + 2

(* stack_frame.rs                                                          *)
StackFrame_new(token, state) == [token |-> token, state |-> state]
toggle_state(f) == [f EXCEPT !.state = IF @ = "Key" THEN "Value" ELSE "Key"]

\* memchr::memchr: the index of the first occurrence of a byte, if any
memchr(needle, haystack) ==
    LET hits == {k \in 0..(Len(haystack) - 1) : At(haystack, k) = needle}
    IN  IF hits = {} THEN None
        ELSE Some(CHOOSE k \in hits : \A j \in hits : k <= j)

----------------------------------------------------------------------------
(* lib.rs: bdecode.  The scan state is a record; pc is "scan" while the    *)
(* loop runs, "after" once the loop is left, "ok" / "err" on return and    *)
(* "panic" when an index is out of range or an assertion fails.            *)

ScanState(p, o, s, stk, tks, e) ==
    [pc |-> p, off |-> o, sp |-> s, stack |-> stk, tokens |-> tks, error |-> e]
Fail(st, e) == [st EXCEPT !.pc = "err", !.error = e]
Panic(st) == [st EXCEPT !.pc = "panic"]

\* stack[k] and tokens[stack[k].token()] can both be indexed
FrameOk(st, k) == InRange(st.stack, k) /\ InRange(st.tokens, At(st.stack, k).token)
FrameIsDict(st, k) == At(st.tokens, At(st.stack, k).token).token_type = "Dict"

\* lines 590-600: the checks before the loop
ScanStart == ScanState("scan", 0, 0, <<>>, <<>>, "None")
\* a length check that refuses the largest addressable buffer as well
bdecode_precheck_strict(len) ==
    IF len >= MAX_OFFSET THEN "LimitExceeded"
    ELSE IF len = 0 THEN "UnexpectedEof"
    ELSE "Ok"

\* the two checks, which read nothing of the buffer but its length
bdecode_precheck(len) ==
    IF len > MAX_OFFSET THEN "LimitExceeded"
    ELSE IF len = 0 THEN "UnexpectedEof"
    ELSE "Ok"

started(chk) == IF chk # "Ok" THEN Fail(ScanStart, chk) ELSE ScanStart
bdecode_start(b) == started(bdecode_precheck(Len(b)))

\* a token pushed with the cursor left where it was
push_token_stay(st, new_token, new_off) ==
    IF ~IsSome(new_token) THEN Fail(st, "LimitExceeded")
    ELSE [st EXCEPT !.tokens = Append(@, Unwrap(new_token))]

\* the token is pushed and the cursor moved, or LimitExceeded from Token::new
push_token(st, new_token, new_off) ==
    IF ~IsSome(new_token) THEN Fail(st, "LimitExceeded")
    ELSE [st EXCEPT !.tokens = Append(@, Unwrap(new_token)), !.off = new_off]

\* a container opened with a List token whatever byte opened it
open_container_as_list(st, token_type) ==
    push_token([st EXCEPT !.stack = Append(@, StackFrame_new(Len(st.tokens), "Key")),
                          !.sp = @ + 1],
               Token_new(st.off, "List", 0, 0), st.off + 1)

\* b'd' and b'l': open a container
open_container(st, token_type) ==
    push_token([st EXCEPT !.stack = Append(@, StackFrame_new(Len(st.tokens), "Key")),
                          !.sp = @ + 1],
               Token_new(st.off, token_type, 0, 0), st.off + 1)

\* b'i', once the terminating 'e' is found at end_index
scan_int_to(b, st, end_index, chk) ==
    IF chk # "Ok" THEN Fail(st, chk)
    ELSE IF At(b, end_index) # BYTE_e THEN Panic(st)
    ELSE push_token(st, Token_new(st.off, "Int", 1, 1), end_index + 1)

scan_int_found(b, st, found) ==
    IF ~IsSome(found) THEN Fail(st, "UnexpectedEof")
    ELSE scan_int_to(b, st, st.off + Unwrap(found),
                     check_integer(Slice(b, st.off + 1, st.off + Unwrap(found))))

\* b'i'
scan_int(b, st) == scan_int_found(b, st, memchr(BYTE_e, Slice(b, st.off, Len(b))))

\* b'e', lines 670-683: tks is the array with the End token pushed, top the
\* index of the container's opening token
\* a back-patch written over the first token instead of the opening one
back_patch_root(st, tks, top, patched) ==
    IF ~IsSome(patched) THEN Fail(st, "LimitExceeded")
    ELSE [st EXCEPT !.tokens = [tks EXCEPT ![1] = Unwrap(patched)],
                    !.sp = @ - 1,
                    !.off = @ + 1]

back_patch(st, tks, top, patched) ==
    IF ~IsSome(patched) THEN Fail(st, "LimitExceeded")
    ELSE [st EXCEPT !.tokens = [tks EXCEPT ![top + 1] = Unwrap(patched)],
                    !.sp = @ - 1,
                    !.off = @ + 1]

\* a back-patch that points at the End token instead of past it
push_end_short(st, end_token, top) ==
    IF ~IsSome(end_token) THEN Fail(st, "LimitExceeded")
    ELSE IF Len(st.tokens) + 1 - top < 0 THEN Panic(st)
    ELSE back_patch(st, Append(st.tokens, Unwrap(end_token)), top,
                    set_next_item(At(st.tokens, top), Len(st.tokens) - top))

push_end(st, end_token, top) ==
    IF ~IsSome(end_token) THEN Fail(st, "LimitExceeded")
    ELSE IF Len(st.tokens) + 1 - top < 0 THEN Panic(st)
    ELSE back_patch(st, Append(st.tokens, Unwrap(end_token)), top,
                    set_next_item(At(st.tokens, top), Len(st.tokens) + 1 - top))

\* a close whose End token takes the offset of the byte before the 'e'
close_container_end_before(st) ==
    IF st.sp = 0 THEN Fail(st, "UnexpectedEof")
    ELSE IF ~FrameOk(st, st.sp - 1) THEN Panic(st)
    ELSE IF FrameIsDict(st, st.sp - 1) /\ At(st.stack, st.sp - 1).state = "Value"
         THEN Fail(st, "ExpectedValue")
    ELSE push_end(st, Token_new(st.off - 1, "End", 1, 0), At(st.stack, st.sp - 1).token)

\* a close that never looks at the dictionary's key/value state
close_container_any_state(st) ==
    IF st.sp = 0 THEN Fail(st, "UnexpectedEof")
    ELSE IF ~FrameOk(st, st.sp - 1) THEN Panic(st)
    ELSE push_end(st, Token_new(st.off, "End", 1, 0), At(st.stack, st.sp - 1).token)

\* b'e': close the innermost container
close_container(st) ==
    IF st.sp = 0 THEN Fail(st, "UnexpectedEof")
    ELSE IF ~FrameOk(st, st.sp - 1) THEN Panic(st)
    ELSE IF FrameIsDict(st, st.sp - 1) /\ At(st.stack, st.sp - 1).state = "Value"
         THEN Fail(st, "ExpectedValue")
    ELSE push_end(st, Token_new(st.off, "End", 1, 0), At(st.stack, st.sp - 1).token)

\* the header stored as the whole count of prefix bytes and ':'
scan_string_payload_whole(len, st, off1, string_length) ==
    IF ~IsSome(string_length) THEN Fail(st, "Overflow")
    ELSE IF off1 >= len THEN Fail(st, "UnexpectedEof")
    ELSE IF I64GreaterThan(Unwrap(string_length), len - off1)
         THEN Fail(st, "UnexpectedEof")
    ELSE push_token(st, Token_new(st.off, "Str", 1, off1 - st.off),
                    off1 + UsizeOf(Unwrap(string_length)))

\* any other byte, lines 701-716: off1 is the cursor just past the ':' and
\* len the buffer's length, all these lines read of the buffer
scan_string_payload(len, st, off1, string_length) ==
    IF ~IsSome(string_length) THEN Fail(st, "Overflow")
    ELSE IF off1 >= len THEN Fail(st, "UnexpectedEof")
    ELSE IF I64GreaterThan(Unwrap(string_length), len - off1)
         THEN Fail(st, "UnexpectedEof")
    ELSE IF off1 - st.off - 2 < 0 THEN Panic(st)
    ELSE push_token(st, Token_new(st.off, "Str", 1, off1 - st.off - 2),
                    off1 + UsizeOf(Unwrap(string_length)))

\* lines 695-699: the length prefix is checked, then decoded
scan_string_length(len, st, off1, chk, decoded) ==
    IF chk # "Ok" THEN Fail(st, chk)
    ELSE IF decoded.err # "Ok" THEN Fail(st, decoded.err)
    ELSE scan_string_payload(len, st, off1, I64ToUsize(decoded.val))

scan_string_prefix(b, st, colon_index, int_buf) ==
    scan_string_length(Len(b), st, colon_index + 1, check_integer(int_buf),
                       decode_int(int_buf))

\* the string arm on a buffer that starts with int_buf and a ':' and is len
\* bytes long, after the checks on the length
scan_string_sized(len, int_buf) ==
    IF bdecode_precheck(len) # "Ok" THEN started(bdecode_precheck(len))
    ELSE scan_string_length(len, ScanStart, Len(int_buf) + 1, check_integer(int_buf),
                            decode_int(int_buf))

scan_string_found(b, st, found) ==
    IF ~IsSome(found) THEN Fail(st, "ExpectedColon")
    ELSE scan_string_prefix(b, st, st.off + Unwrap(found),
                            Slice(b, st.off, st.off + Unwrap(found)))

\* any other byte: a string
scan_string(b, st) == scan_string_found(b, st, memchr(BYTE_colon, Slice(b, st.off, Len(b))))

\* lines 720-741: what follows the match in a loop iteration that did not
\* return, and the loop's own exit test
\* a dictionary frame that is never toggled
toggled_stack_never(st, current_frame) == st.stack

toggled_stack(st, current_frame) ==
    IF current_frame > 0 /\ FrameIsDict(st, current_frame - 1)
    THEN [st.stack EXCEPT ![current_frame] = toggle_state(@)]
    ELSE st.stack

\* a stack whose frames are never popped
popped_stack_kept(st, current_frame, stk) == stk

popped_stack(st, current_frame, stk) ==
    IF st.sp < current_frame THEN SubSeq(stk, 1, Len(stk) - 1) ELSE stk

\* a loop that goes on scanning after the top-level value is complete
after_match_no_break(b, st, current_frame) ==
    IF current_frame > 0 /\ ~FrameOk(st, current_frame - 1) THEN Panic(st)
    ELSE [st EXCEPT !.stack = popped_stack(st, current_frame,
                                           toggled_stack(st, current_frame)),
                    !.pc = IF ~(st.off < Len(b)) THEN "after" ELSE "scan"]

after_match(b, st, current_frame) ==
    IF current_frame > 0 /\ ~FrameOk(st, current_frame - 1) THEN Panic(st)
    ELSE [st EXCEPT !.stack = popped_stack(st, current_frame,
                                           toggled_stack(st, current_frame)),
                    !.pc = IF st.sp = 0 \/ ~(st.off < Len(b)) THEN "after" ELSE "scan"]

\* a key check that lets an integer through as a key
key_check_lenient(b, st) ==
    IF st.sp = 0 THEN "Ok"
    ELSE IF ~FrameOk(st, st.sp - 1) THEN "panic"
    ELSE IF /\ FrameIsDict(st, st.sp - 1)
            /\ At(st.stack, st.sp - 1).state = "Key"
            /\ ~is_numeric(At(b, st.off)) /\ At(b, st.off) \notin {BYTE_e, BYTE_i}
         THEN "ExpectedDigit"
    ELSE "Ok"

\* the dictionary-key check at the top of an iteration (lines 605-616):
\* "panic", "ExpectedDigit" or "Ok"
key_check(b, st) ==
    IF st.sp = 0 THEN "Ok"
    ELSE IF ~FrameOk(st, st.sp - 1) THEN "panic"
    ELSE IF /\ FrameIsDict(st, st.sp - 1)
            /\ At(st.stack, st.sp - 1).state = "Key"
            /\ ~is_numeric(At(b, st.off)) /\ At(b, st.off) # BYTE_e
         THEN "ExpectedDigit"
    ELSE "Ok"

match_byte(b, st) ==
    CASE At(b, st.off) = BYTE_d -> open_container(st, "Dict")
      [] At(b, st.off) = BYTE_l -> open_container(st, "List")
      [] At(b, st.off) = BYTE_i -> scan_int(b, st)
      [] At(b, st.off) = BYTE_e -> close_container(st)
      [] OTHER -> scan_string(b, st)

\* the rest of an iteration whose match left the state m
matched(b, m, current_frame) ==
    IF m.pc # "scan" THEN m ELSE after_match(b, m, current_frame)

key_checked(b, st, kc) ==
    IF kc = "panic" THEN Panic(st)
    ELSE IF kc # "Ok" THEN Fail(st, kc)
    ELSE matched(b, match_byte(b, st), st.sp)

\* one iteration of the while loop (lines 601-741)
bdecode_step(b, st) == key_checked(b, st, key_check(b, st))

\* the final End token pushed whatever containers are still open
bdecode_finish_unchecked(st) ==
    [push_token(st, Token_new(st.off, "End", 0, 0), st.off)
        EXCEPT !.pc = IF @ = "err" THEN "err" ELSE "ok"]

\* lines 743-750: after the loop
bdecode_finish(st) ==
    IF st.sp > 0 THEN Fail(st, "UnexpectedEof")
    ELSE [push_token(st, Token_new(st.off, "End", 0, 0), st.off)
             EXCEPT !.pc = IF @ = "err" THEN "err" ELSE "ok"]

\* bdecode run to its return
RECURSIVE bdecode_run(_, _)
bdecode_run(b, st) ==
    CASE st.pc = "scan"  -> bdecode_run(b, bdecode_step(b, st))
      [] st.pc = "after" -> bdecode_finish(st)
      [] OTHER -> st
bdecode(b) == bdecode_run(b, bdecode_start(b))

----------------------------------------------------------------------------
(* lib.rs: the handles.  A handle is its kind, token_idx and the two cache *)
(* cells; an accessor yields its status ("ok", "panic" on an index out of  *)
(* range or a failed assertion, "hang" on a loop that makes no progress),  *)
(* what it returns, and the cache cells as it leaves them.                 *)

Handle(kind, token_idx) ==
    [kind |-> kind, token_idx |-> token_idx, cached_lookup |-> None, cached_size |-> None]
NoHandle == Handle("None", 0)

Res(status, out, cached_lookup, cached_size) ==
    [status |-> status, out |-> out,
     cached_lookup |-> cached_lookup, cached_size |-> cached_size]
Bad(status, h) == Res(status, None, h.cached_lookup, h.cached_size)

\* BencodeAny::node_type; "panic" stands for the unreachable!() branch and
\* for an index out of range
node_type(T, token_idx) ==
    IF ~InRange(T, token_idx) THEN "panic"
    ELSE LET token_type == At(T, token_idx).token_type IN
         IF token_type = "End" THEN "panic" ELSE token_type

\* the slice buf[from..from + size] taken by an accessor
slice_of(b, from, size) ==
    IF size < 0 \/ from + size > Len(b) THEN [status |-> "panic", out |-> <<>>]
    ELSE [status |-> "ok", out |-> Slice(b, from, from + size)]

\* as_bytes taking every length prefix to be one digit long
string_as_bytes_one_digit(T, b, token_idx) ==
    IF ~InRange(T, token_idx) \/ ~InRange(T, token_idx + 1)
    THEN [status |-> "panic", out |-> <<>>]
    ELSE slice_of(b, At(T, token_idx).offset + 2,
                  At(T, token_idx + 1).offset - At(T, token_idx).offset - 2)

\* BencodeString::as_bytes
string_as_bytes(T, b, token_idx) ==
    IF ~InRange(T, token_idx) \/ ~InRange(T, token_idx + 1)
    THEN [status |-> "panic", out |-> <<>>]
    ELSE slice_of(b, At(T, token_idx).offset + start_offset(At(T, token_idx)),
                  At(T, token_idx + 1).offset - At(T, token_idx).offset
                      - start_offset(At(T, token_idx)))

\* BencodeInt::as_bytes, t_off and t_next_off being the two offsets it reads
int_bytes_between(b, t_off, t_next_off) ==
    IF \/ ~InRange(b, t_off) \/ At(b, t_off) # BYTE_i
       \/ ~InRange(b, t_next_off - 1) \/ At(b, t_next_off - 1) # BYTE_e
    THEN [status |-> "panic", out |-> <<>>]
    ELSE slice_of(b, t_off + 1, t_next_off - 2 - t_off)

int_as_bytes(T, b, token_idx) ==
    IF ~InRange(T, token_idx) \/ ~InRange(T, token_idx + 1)
    THEN [status |-> "panic", out |-> <<>>]
    ELSE int_bytes_between(b, At(T, token_idx).offset, At(T, token_idx + 1).offset)

\* BencodeInt::value
value_of(bytes) ==
    IF bytes.status # "ok" THEN [status |-> bytes.status, out |-> Err("Pending")]
    ELSE [status |-> "ok", out |-> decode_int(bytes.out)]
int_value(T, b, token_idx) == value_of(int_as_bytes(T, b, token_idx))

\* the while loop of BencodeList::get
RECURSIVE list_get_loop(_, _, _, _)
\* the loop stepping to the next token instead of the next sibling
list_get_loop_flat(T, token, item, index) ==
    IF item < index
    THEN IF ~InRange(T, token + 1)
         THEN [status |-> "panic", found |-> FALSE, token |-> token + 1, item |-> item + 1]
         ELSE IF At(T, token + 1).token_type = "End"
         THEN [status |-> "ok", found |-> FALSE, token |-> token + 1, item |-> item + 1]
         ELSE list_get_loop(T, token + 1, item + 1, index)
    ELSE [status |-> "ok", found |-> TRUE, token |-> token, item |-> item]

list_get_loop(T, token, item, index) ==
    IF item < index
    THEN IF ~InRange(T, token) THEN [status |-> "panic", found |-> FALSE, token |-> token, item |-> item]
         ELSE LET token1 == token + At(T, token).next_item IN
              IF ~InRange(T, token1)
              THEN [status |-> "panic", found |-> FALSE, token |-> token1, item |-> item + 1]
              ELSE IF At(T, token1).token_type = "End"
              THEN [status |-> "ok", found |-> FALSE, token |-> token1, item |-> item + 1]
              ELSE list_get_loop(T, token1, item + 1, index)
    ELSE [status |-> "ok", found |-> TRUE, token |-> token, item |-> item]

\* whether get starts from the cached pair (last_token, last_index)
use_cached_lookup(h, index) ==
    IsSome(h.cached_lookup) /\ Unwrap(h.cached_lookup)[2] >= index

\* where get starts: the cached pair or (token_idx + 1, 0)
lookup_start(h, index) ==
    IF use_cached_lookup(h, index) THEN Unwrap(h.cached_lookup) ELSE <<h.token_idx + 1, 0>>

\* the cached_lookup cell after a get that found its element at token
lookup_set(h, token, index) ==
    IF index > 0 THEN Some(<<token, index>>) ELSE h.cached_lookup

\* BencodeList::get after its loop (lines 151-156, and 146-147 when the
\* loop met the End token)
list_got(h, index, r) ==
    IF r.status # "ok" THEN Bad(r.status, h)
    ELSE IF ~r.found THEN Res("ok", None, h.cached_lookup, Some(r.item))
    ELSE Res("ok", Some(r.token), lookup_set(h, r.token, index), h.cached_size)

\* get without the test for an empty list at its start
list_get_unchecked(T, h, index) ==
    IF ~InRange(T, h.token_idx + 1) THEN Bad("panic", h)
    ELSE list_got(h, index,
                  list_get_loop(T, lookup_start(h, index)[1], lookup_start(h, index)[2],
                                index))

\* BencodeList::get: Some(token index of the element's handle) or None
list_get(T, h, index) ==
    IF ~InRange(T, h.token_idx + 1) THEN Bad("panic", h)
    ELSE IF At(T, h.token_idx + 1).token_type = "End"
    THEN Res("ok", None, h.cached_lookup, Some(0))
    ELSE list_got(h, index,
                  list_get_loop(T, lookup_start(h, index)[1], lookup_start(h, index)[2],
                                index))

\* the while loop of BencodeList::len and of BencodeDict::len
RECURSIVE len_loop(_, _, _)
len_loop(T, token, size) ==
    IF ~InRange(T, token) THEN [status |-> "panic", size |-> size]
    ELSE IF At(T, token).token_type = "End" THEN [status |-> "ok", size |-> size]
    ELSE IF At(T, token).next_item = 0 THEN [status |-> "hang", size |-> size]
    ELSE len_loop(T, token + At(T, token).next_item, size + 1)

\* where len starts: the cached pair whatever its index, or (token_idx + 1, 0)
len_start(h) ==
    IF IsSome(h.cached_lookup) THEN Unwrap(h.cached_lookup) ELSE <<h.token_idx + 1, 0>>

\* BencodeList::len
list_counted(h, r) ==
    IF r.status # "ok" THEN Res(r.status, 0, h.cached_lookup, h.cached_size)
    ELSE Res("ok", r.size, h.cached_lookup, Some(r.size))

list_len(T, h) ==
    IF IsSome(h.cached_size)
    THEN Res("ok", Unwrap(h.cached_size), h.cached_lookup, h.cached_size)
    ELSE list_counted(h, len_loop(T, len_start(h)[1], len_start(h)[2]))

\* the while loop of BencodeDict::get
RECURSIVE dict_get_loop(_, _, _, _)
dict_get_loop(T, token, item, index) ==
    IF item < index
    THEN IF ~InRange(T, token) \/ At(T, token).token_type # "Str"
         THEN [status |-> "panic", found |-> FALSE, token |-> token, item |-> item]
         ELSE LET token1 == token + At(T, token).next_item IN
              IF ~InRange(T, token1)
              THEN [status |-> "panic", found |-> FALSE, token |-> token1, item |-> item]
              ELSE IF At(T, token1).token_type = "End"
              THEN [status |-> "ok", found |-> FALSE, token |-> token1, item |-> item]
              ELSE LET token2 == token1 + At(T, token1).next_item IN
                   IF ~InRange(T, token2)
                   THEN [status |-> "panic", found |-> FALSE, token |-> token2, item |-> item]
                   ELSE IF At(T, token2).token_type = "End"
                   THEN [status |-> "ok", found |-> FALSE, token |-> token2, item |-> item]
                   ELSE dict_get_loop(T, token2, item + 1, index)
    ELSE [status |-> "ok", found |-> TRUE, token |-> token, item |-> item]

\* BencodeDict::get after its loop (lines 275-287): key is the result of
\* as_string().unwrap().as_bytes() on the key's handle
dict_pair(T, h, index, token, key) ==
    IF node_type(T, token) # "Str" \/ key.status # "ok"
    THEN Res("panic", None, lookup_set(h, token, index), h.cached_size)
    ELSE Res("ok", Some(<<key.out, token + At(T, token).next_item>>),
             lookup_set(h, token, index), h.cached_size)

dict_got(T, b, h, index, r) ==
    IF r.status # "ok" THEN Bad(r.status, h)
    ELSE IF ~r.found THEN Res("ok", None, h.cached_lookup, Some(r.item))
    ELSE dict_pair(T, h, index, r.token, string_as_bytes(T, b, r.token))

\* BencodeDict::get: Some(<<key bytes, token index of the value's handle>>)
dict_get(T, b, h, index) ==
    IF ~InRange(T, h.token_idx + 1) THEN Bad("panic", h)
    ELSE IF At(T, h.token_idx + 1).token_type = "End"
    THEN Res("ok", None, h.cached_lookup, Some(0))
    ELSE dict_got(T, b, h, index,
                  dict_get_loop(T, lookup_start(h, index)[1], lookup_start(h, index)[2],
                                index))

\* the while loop of BencodeDict::find: key_at is one iteration on a key
\* token whose bytes are `bytes`, token1 the token after the key
RECURSIVE dict_find_loop(_, _, _, _), key_at(_, _, _, _, _, _)
dict_find_loop(T, b, token, key) ==
    IF ~InRange(T, token) THEN [status |-> "panic", out |-> None]
    ELSE IF At(T, token).token_type = "End" THEN [status |-> "ok", out |-> None]
    ELSE IF At(T, token).token_type # "Str" \/ ~InRange(T, token + 1)
    THEN [status |-> "panic", out |-> None]
    ELSE key_at(T, b, token, key, string_as_bytes(T, b, token),
                token + At(T, token).next_item)

\* the key comparison by length alone
key_at_length_only(T, b, token, key, bytes, token1) ==
    IF bytes.status # "ok" THEN [status |-> "panic", out |-> None]
    ELSE IF ~InRange(T, token1) \/ At(T, token1).token_type = "End"
    THEN [status |-> "panic", out |-> None]
    ELSE IF Len(key) = Len(bytes.out) THEN [status |-> "ok", out |-> Some(token1)]
    ELSE IF token1 + At(T, token1).next_item = token THEN [status |-> "hang", out |-> None]
    ELSE dict_find_loop(T, b, token1 + At(T, token1).next_item, key)

key_at(T, b, token, key, bytes, token1) ==
    IF bytes.status # "ok" THEN [status |-> "panic", out |-> None]
    ELSE IF ~InRange(T, token1) \/ At(T, token1).token_type = "End"
    THEN [status |-> "panic", out |-> None]
    ELSE IF key = bytes.out THEN [status |-> "ok", out |-> Some(token1)]
    ELSE IF token1 + At(T, token1).next_item = token THEN [status |-> "hang", out |-> None]
    ELSE dict_find_loop(T, b, token1 + At(T, token1).next_item, key)

\* BencodeDict::find: Some(token index of the value's handle) or None
\* a find that clears the two caches
dict_found_reset(h, r) == Res(r.status, r.out, None, None)
dict_found(h, r) == Res(r.status, r.out, h.cached_lookup, h.cached_size)
dict_find(T, b, h, key) == dict_found(h, dict_find_loop(T, b, h.token_idx + 1, key))

\* the count of sibling steps returned without halving it
dict_counted_steps(h, r) ==
    IF r.status # "ok" THEN Res(r.status, 0, h.cached_lookup, h.cached_size)
    ELSE Res("ok", r.size, h.cached_lookup, Some(r.size))

\* BencodeDict::len
dict_counted(h, r) ==
    IF r.status # "ok" THEN Res(r.status, 0, h.cached_lookup, h.cached_size)
    ELSE IF r.size % 2 # 0 THEN Res("panic", 0, h.cached_lookup, h.cached_size)
    ELSE Res("ok", r.size \div 2, h.cached_lookup, Some(r.size \div 2))

dict_len(T, h) ==
    IF IsSome(h.cached_size)
    THEN Res("ok", Unwrap(h.cached_size), h.cached_lookup, h.cached_size)
    ELSE dict_counted(h, len_loop(T, len_start(h)[1], len_start(h)[2] * 2))

----------------------------------------------------------------------------
(* iterators.rs.  An iterator is its kind, the token it stands at, the     *)
(* number of items it has returned and the size its container had cached   *)
(* when the iterator was made.                                             *)

BencodeIter(kind, token_idx, precalculated_size) ==
    [kind |-> kind, token_idx |-> token_idx, num_traversed |-> 0,
     precalculated_size |-> precalculated_size]
NoIter == BencodeIter("None", 0, None)

\* BencodeList::iter and BencodeDict::iter; `size as u32` leaves a size
\* below 2^32 as it is, and a size is at most the number of tokens
list_iter_at_container(h) == BencodeIter("List", h.token_idx, h.cached_size)
list_iter(h) == BencodeIter("List", h.token_idx + 1, h.cached_size)
dict_iter(h) == BencodeIter("Dict", h.token_idx + 1, h.cached_size)

IterRes(status, out, it) == [status |-> status, out |-> out, it |-> it]

\* the iterator after it returned an item, standing at token
advanced(it, token) == [it EXCEPT !.token_idx = token, !.num_traversed = @ + 1]

\* BencodeListIter::next: Some(token index of the item's handle) or None
list_iter_next(T, it) ==
    IF ~InRange(T, it.token_idx) THEN IterRes("panic", None, it)
    ELSE IF At(T, it.token_idx).token_type = "End" THEN IterRes("ok", None, it)
    ELSE IterRes("ok", Some(it.token_idx),
                 advanced(it, it.token_idx + At(T, it.token_idx).next_item))

\* the value taken one token past the key's successor
dict_iter_pair_skipped(T, it, key, value_token) ==
    IF node_type(T, it.token_idx) # "Str" \/ key.status # "ok" \/ ~InRange(T, value_token + 1)
    THEN IterRes("panic", None, it)
    ELSE IterRes("ok", Some(<<key.out, value_token + 1>>),
                 advanced(it, value_token + At(T, value_token).next_item))

\* BencodeDictIter::next past the End test: key is the result of
\* as_string().unwrap().as_bytes() on the key's handle
dict_iter_pair(T, it, key, value_token) ==
    IF node_type(T, it.token_idx) # "Str" \/ key.status # "ok" \/ ~InRange(T, value_token)
    THEN IterRes("panic", None, it)
    ELSE IterRes("ok", Some(<<key.out, value_token>>),
                 advanced(it, value_token + At(T, value_token).next_item))

\* BencodeDictIter::next: Some(<<key bytes, token index of the value>>) or None
dict_iter_next(T, b, it) ==
    IF ~InRange(T, it.token_idx) THEN IterRes("panic", None, it)
    ELSE IF At(T, it.token_idx).token_type = "End" THEN IterRes("ok", None, it)
    ELSE dict_iter_pair(T, it, string_as_bytes(T, b, it.token_idx),
                        it.token_idx + At(T, it.token_idx).next_item)

\* a u32 difference as its two 16-bit halves; d < 0 is the wrapped value
\* 2^32 + d of a subtraction that overflowed (for -65536 <= d)
u32_sub(d) ==
    IF d >= 0 THEN [hi |-> d \div 65536, lo |-> d % 65536]
    ELSE [hi |-> 65535, lo |-> 65536 + d]

\* the builds: debug_assert! is compiled in or out
Builds == {"debug", "release"}

\* size_hint of both iterators: <<lower, upper>>
size_hint(it, build) ==
    IF ~IsSome(it.precalculated_size)
    THEN IterRes("ok", <<u32_sub(0), None>>, it)
    ELSE IF build = "debug" /\ ~(it.num_traversed <= Unwrap(it.precalculated_size))
    THEN IterRes("panic", <<u32_sub(0), None>>, it)
    ELSE IterRes("ok", <<u32_sub(Unwrap(it.precalculated_size) - it.num_traversed),
                         it.precalculated_size>>, it)

----------------------------------------------------------------------------
(* The integer grammar driven directly, as the tests of parse_int.rs do:   *)
(* a literal is the rendering of an i64, bare or behind a one-byte prefix, *)
(* or any short byte string, or a literal around the ends of the range.    *)

FromInt(k) == IF k < 0 THEN I64(TRUE, 0, 0, -k) ELSE I64(FALSE, 0, 0, k)

I64Samples ==
    {FromInt(k) : k \in -MaxSmall..MaxSmall}
    \cup {I64_MAX, I64_MIN,
          I64(FALSE, 92233, 7203685, 4775806), I64(TRUE, 92233, 7203685, 4775807),
          I64(FALSE, 0, 0, 100), I64(TRUE, 0, 0, 100),
          I64(FALSE, 0, 0, 100000), I64(TRUE, 0, 0, 100000),
          I64(FALSE, 0, 0, 9999999), I64(FALSE, 0, 1, 0), I64(TRUE, 0, 1, 0),
          I64(FALSE, 0, 9999999, 9999999), I64(FALSE, 1, 0, 0), I64(TRUE, 1, 0, 0),
          I64(FALSE, 10000, 0, 0), I64(TRUE, 10000, 0, 0),
          I64(FALSE, 92233, 7203685, 4775800), I64(TRUE, 92233, 7203685, 4775800),
          I64(FALSE, 9999, 9999999, 9999999), I64(TRUE, 90000, 0, 9)}

Prefixes == {"none", "space", "zero", "plus"}

PrefixBytes(p) ==
    CASE p = "space" -> <<BYTE_space>>
      [] p = "zero"  -> <<BYTE_0>>
      [] p = "plus"  -> <<BYTE_plus>>
      [] OTHER       -> <<>>

LitAlphabet == {BYTE_minus, BYTE_0, 49, BYTE_9, BYTE_plus, BYTE_space, BYTE_a}

RECURSIVE SeqsUpTo(_, _)
SeqsUpTo(S, n) ==
    IF n = 0 THEN {<<>>}
    ELSE LET shorter == SeqsUpTo(S, n - 1)
         IN  shorter \cup {Append(s, x) : s \in {t \in shorter : Len(t) = n - 1}, x \in S}

\* literals just outside the i64 range, and of 19, 20 and 21 digits, two of
\* them small numbers written behind zeros
LongLiterals ==
    LET max == to_string(I64_MAX)
        d18 == SubSeq(max, 1, 18)
    IN  {Append(d18, 56), <<BYTE_minus>> \o Append(d18, 57),
         <<BYTE_minus>> \o Append(d18, 56),
         <<BYTE_9>> \o Tail(max), <<BYTE_minus, BYTE_9>> \o Tail(max),
         <<49>> \o max, <<BYTE_minus, 49>> \o max,
         <<BYTE_9, BYTE_9>> \o max, <<49, BYTE_0>> \o Tail(max),
         <<49>> \o [k \in 1..19 |-> BYTE_0], <<49>> \o [k \in 1..18 |-> BYTE_0],
         [k \in 1..19 |-> BYTE_9], [k \in 1..20 |-> BYTE_9], [k \in 1..21 |-> 49],
         <<BYTE_0>> \o max, [k \in 1..20 |-> BYTE_0] \o <<49>>}

NoNum == [n |-> I64Zero, prefix |-> "raw"]
Pending == [dec |-> Err("Pending"), chk |-> "Pending"]
NoRet == [op |-> "none", arg |-> <<>>, fresh |-> FALSE, out |-> <<>>]
NoProbe == [len |-> 0, out |-> "None", st |-> ScanStart]
\* buffer lengths around the two ends of the accepted range
Lengths == (0..LimitSlack) \cup ((MAX_OFFSET - LimitSlack)..(MAX_OFFSET + LimitSlack))

----------------------------------------------------------------------------
(* The buffers handed to bdecode: every byte string over Alphabet up to    *)
(* MaxRaw bytes, every well-formed encoding up to MaxLen bytes built from  *)
(* Leaves and Keys, i<n>e for the sampled i64 values, and i<literal>e for  *)
(* the literals around the ends of the range.                              *)

Alphabet == {BYTE_d, BYTE_l, BYTE_i, BYTE_e, BYTE_0, 49, BYTE_colon, BYTE_minus, BYTE_a}

Leaves == {<<BYTE_0, BYTE_colon>>, <<49, BYTE_colon, BYTE_a>>, <<BYTE_i, 49, BYTE_e>>}
Keys == {<<BYTE_0, BYTE_colon>>, <<49, BYTE_colon, BYTE_a>>, <<49, BYTE_colon, BYTE_b>>}
PairValues == {<<BYTE_0, BYTE_colon>>, <<BYTE_i, 49, BYTE_e>>, <<BYTE_l, BYTE_e>>}

\* acc[k + 1] holds, for length k: the values (item), the list bodies (lb)
\* and the dict bodies (db) of exactly k bytes
RECURSIVE GenUpTo(_, _)
GenUpTo(n, acc) ==
    IF Len(acc) > n THEN acc
    ELSE LET m == Len(acc)
             item == {x \in Leaves : Len(x) = m}
                     \cup (IF m < 2 THEN {}
                           ELSE {<<BYTE_l>> \o body \o <<BYTE_e>> : body \in acc[m - 1].lb}
                                \cup {<<BYTE_d>> \o body \o <<BYTE_e>> : body \in acc[m - 1].db})
             ItemOf(k) == IF k = m THEN item ELSE acc[k + 1].item
             lb == IF m = 0 THEN {<<>>}
                   ELSE UNION {{v \o r : v \in ItemOf(k), r \in acc[m - k + 1].lb} : k \in 1..m}
             db == IF m = 0 THEN {<<>>}
                   ELSE UNION {UNION {{ky \o v \o r : v \in ItemOf(vl),
                                                      r \in acc[m - Len(ky) - vl + 1].db}
                                      : vl \in 1..(m - Len(ky))} : ky \in Keys}
         IN  GenUpTo(n, Append(acc, [item |-> item, lb |-> lb, db |-> db]))

WellFormed ==
    LET g == GenUpTo(MaxLen, <<>>) IN UNION {g[k].item : k \in 1..Len(g)}

\* dictionaries of two pairs, keys equal or different, whatever their length
TwoKeyDicts ==
    {<<BYTE_d>> \o k1 \o v1 \o k2 \o v2 \o <<BYTE_e>> :
        k1 \in Keys, k2 \in Keys, v1 \in PairValues, v2 \in PairValues}

IntBuffer(literal) == <<BYTE_i>> \o literal \o <<BYTE_e>>

\* buffers that are not well formed: a well-formed encoding cut short, or
\* with one byte replaced
Truncated == UNION {{SubSeq(w, 1, k) : k \in 0..Len(w)} : w \in WellFormed}

Substituted ==
    UNION {{[w EXCEPT ![k] = x] : k \in 1..Len(w), x \in Alphabet}
           : w \in {v \in WellFormed : Len(v) <= MaxDamaged}}

\* a well-formed encoding followed by bytes that are not part of it
Extended ==
    {w \o t : w \in {v \in WellFormed : Len(v) <= MaxExtended},
              t \in SeqsUpTo(Alphabet, MaxTail)}

\* a string whose length prefix has two digits, alone, in a list and as a
\* dict key
LongString == <<49, BYTE_0, BYTE_colon>> \o [k \in 1..10 |-> BYTE_a]
LongStrings ==
    {LongString, <<BYTE_l>> \o LongString \o <<BYTE_e>>,
     <<BYTE_d>> \o LongString \o <<BYTE_0, BYTE_colon, BYTE_e>>,
     SubSeq(LongString, 1, 12)}

ParserStart ==
    /\ pc = "start" /\ off = 0 /\ sp = 0 /\ stack = <<>> /\ tokens = <<>>
    /\ error = "None" /\ handle = NoHandle /\ iter = NoIter /\ ret = NoRet
    /\ lit = <<>> /\ ires = Pending /\ probe = NoProbe

ParserIdle ==
    /\ buf = <<>> /\ pc \in {"idle", "length", "string", "token"} /\ off = 0 /\ sp = 0 /\ stack = <<>>
    /\ tokens = <<>> /\ error = "None" /\ handle = NoHandle /\ iter = NoIter
    /\ ret = NoRet

InitInt ==
    /\ ParserIdle /\ pc = "idle" /\ probe = NoProbe
    /\ ires = Pending
    /\ \/ /\ num \in [n : I64Samples, prefix : Prefixes]
          /\ lit = PrefixBytes(num.prefix) \o to_string(num.n)
       \/ /\ num = NoNum
          /\ lit \in SeqsUpTo(LitAlphabet, MaxLitLen) \cup LongLiterals

\* the buffers handed to bdecode, each with the number it was written from
DecodeInputs ==
    {[buf |-> b, num |-> NoNum] :
        b \in SeqsUpTo(Alphabet, MaxRaw) \cup WellFormed
              \cup {IntBuffer(l) : l \in LongLiterals}
              \cup Truncated \cup Substituted \cup Extended \cup LongStrings
              \cup TwoKeyDicts}
    \cup {[buf |-> IntBuffer(to_string(n)), num |-> [n |-> n, prefix |-> "none"]] :
             n \in I64Samples}

InitDecode ==
    /\ ParserStart
    /\ \E in \in DecodeInputs : buf = in.buf /\ num = in.num

\* a buffer of which only the length is fixed
InitLength ==
    /\ ParserIdle /\ pc = "length"
    /\ lit = <<>> /\ num = NoNum /\ ires = Pending
    /\ probe \in [len : Lengths, out : {"Pending"}, st : {ScanStart}]

\* a length prefix of d digits: '1' and d - 1 zeros, and the number it names
PrefixOfDigits(d) == <<49>> \o [k \in 1..(d - 1) |-> BYTE_0]
RECURSIVE PowerOfTen(_)
PowerOfTen(k) == IF k = 0 THEN 1 ELSE 10 * PowerOfTen(k - 1)

\* a buffer that starts with a string: the length prefix is fixed, and the
\* buffer's length, which runs from one byte short of the string to MaxTail
\* bytes past it
InitString ==
    /\ ParserIdle /\ pc = "string"
    /\ num = NoNum /\ ires = Pending
    /\ \E d \in 1..MaxPrefixDigits :
          /\ lit = PrefixOfDigits(d)
          /\ probe \in [len : {d + 1 + PowerOfTen(d - 1) + k : k \in -1..MaxTail},
                         out : {"Pending"}, st : {ScanStart}]

\* the caller of Token::new, as the test of token.rs
InitToken ==
    /\ ParserIdle /\ pc = "token" /\ probe = NoProbe
    /\ lit = <<>> /\ num = NoNum /\ ires = Pending

\* offsets and next_item values: small ones, the test's, and those around
\* the limit; headers up to past the limit
FieldSamples == {0, 1, 11, 42, 29312} \cup ((MAX_OFFSET - FieldSlack)..(MAX_OFFSET + FieldSlack))
HeaderSamples == {0, 5} \cup ((MAX_HEADER - FieldSlack)..(MAX_HEADER + FieldSlack))

Init == InitInt \/ InitDecode \/ InitLength \/ InitString \/ InitToken

----------------------------------------------------------------------------
(* decode_int and check_integer called on the literal.                     *)

CallDecodeInt ==
    /\ pc = "idle" /\ ires.dec.err = "Pending"
    /\ ires' = [ires EXCEPT !.dec = decode_int(lit)]
    /\ UNCHANGED <<buf, pc, off, sp, stack, tokens, error, handle, ret, lit, num, probe, iter>>

CallCheckInteger ==
    /\ pc = "idle" /\ ires.chk = "Pending"
    /\ ires' = [ires EXCEPT !.chk = check_integer(lit)]
    /\ UNCHANGED <<buf, pc, off, sp, stack, tokens, error, handle, ret, lit, num, probe, iter>>

\* Token::new(offset, token_type, next_item, header): ret keeps the arguments
\* and the word built, error the Err
CallTokenNew ==
    /\ pc = "token" /\ ret.op = "none"
    /\ \E offset \in FieldSamples, token_type \in TokenType,
          next_item \in FieldSamples, header \in HeaderSamples :
          /\ ret' = [op |-> "Token::new", arg |-> <<offset, token_type, next_item, header>>,
                     fresh |-> TRUE,
                     out |-> Token_new_inner(offset, token_type, next_item, header)]
          /\ error' = IF IsSome(Token_new_inner(offset, token_type, next_item, header))
                      THEN "None" ELSE "LimitExceeded"
    /\ UNCHANGED <<buf, pc, off, sp, stack, tokens, handle, lit, num, probe, ires, iter>>

\* tok.set_next_item(new_next_item) on the token Token::new returned
CallSetNextItem ==
    /\ pc = "token" /\ ret.op = "Token::new" /\ IsSome(ret.out)
    /\ \E new_next_item \in FieldSamples :
          /\ ret' = [op |-> "set_next_item", arg |-> <<new_next_item>>, fresh |-> FALSE,
                     out |-> Some(Token_set_next_item(Unwrap(ret.out), new_next_item).inner)]
          /\ error' = Token_set_next_item(Unwrap(ret.out), new_next_item).error
    /\ UNCHANGED <<buf, pc, off, sp, stack, tokens, handle, lit, num, probe, ires, iter>>

\* bdecode on a buffer of probe.len bytes that starts with the length prefix
\* lit and a ':', up to the end of the string arm
CallScanString ==
    /\ pc = "string" /\ probe.out = "Pending"
    /\ probe' = [probe EXCEPT !.out = bdecode_precheck(probe.len),
                              !.st = scan_string_sized(probe.len, lit)]
    /\ UNCHANGED <<buf, pc, off, sp, stack, tokens, error, handle, ret, lit, num, ires, iter>>

\* bdecode on a buffer of probe.len bytes, up to the loop
CallPrecheck ==
    /\ pc = "length" /\ probe.out = "Pending"
    /\ probe' = [probe EXCEPT !.out = bdecode_precheck(probe.len)]
    /\ UNCHANGED <<buf, pc, off, sp, stack, tokens, error, handle, ret, lit, num, ires, iter>>

(* bdecode, one loop iteration at a time.                                  *)

CurState == ScanState(pc, off, sp, stack, tokens, error)

SetScan(st) ==
    /\ pc' = st.pc /\ off' = st.off /\ sp' = st.sp /\ stack' = st.stack
    /\ tokens' = st.tokens /\ error' = st.error
    /\ UNCHANGED <<buf, handle, ret, lit, num, probe, ires, iter>>

Start ==
    /\ pc = "start"
    /\ SetScan(bdecode_start(buf))

OpenDict ==
    /\ pc = "scan" /\ At(buf, off) = BYTE_d
    /\ SetScan(bdecode_step(buf, CurState))

OpenList ==
    /\ pc = "scan" /\ At(buf, off) = BYTE_l
    /\ SetScan(bdecode_step(buf, CurState))

ScanInt ==
    /\ pc = "scan" /\ At(buf, off) = BYTE_i
    /\ SetScan(bdecode_step(buf, CurState))

CloseContainer ==
    /\ pc = "scan" /\ At(buf, off) = BYTE_e
    /\ SetScan(bdecode_step(buf, CurState))

ScanString ==
    /\ pc = "scan" /\ ~(At(buf, off) \in {BYTE_d, BYTE_l, BYTE_i, BYTE_e})
    /\ SetScan(bdecode_step(buf, CurState))

Finish ==
    /\ pc = "after"
    /\ SetScan(bdecode_finish(CurState))

(* The caller's side: get_root, the four refinements, the accessors, and   *)
(* taking the handle an accessor returned.                                 *)

GetRoot ==
    /\ pc = "ok" /\ handle.kind = "None"
    /\ handle' = Handle("Any", 0)
    /\ iter' = NoIter
    /\ ret' = NoRet
    /\ UNCHANGED <<buf, pc, off, sp, stack, tokens, error, lit, num, probe, ires>>

\* a refinement that gives the handle up when the kind does not match
Refined_consuming(op, kind) ==
    LET nt == node_type(tokens, handle.token_idx) IN
    /\ pc' = IF nt = "panic" THEN "panic" ELSE pc
    /\ handle' = IF nt = kind THEN Handle(kind, handle.token_idx) ELSE NoHandle
    /\ ret' = [op |-> op, arg |-> <<>>, fresh |-> TRUE,
               out |-> IF nt = kind THEN Some(handle.token_idx) ELSE None]
    /\ UNCHANGED <<buf, off, sp, stack, tokens, error, lit, num, probe, ires, iter>>

\* as_list / as_dict / as_int / as_string: Some(typed handle) iff node_type
\* is the kind asked for
Refined(op, kind) ==
    LET nt == node_type(tokens, handle.token_idx) IN
    /\ pc' = IF nt = "panic" THEN "panic" ELSE pc
    /\ handle' = IF nt = kind THEN Handle(kind, handle.token_idx) ELSE handle
    /\ ret' = [op |-> op, arg |-> <<>>, fresh |-> TRUE,
               out |-> IF nt = kind THEN Some(handle.token_idx) ELSE None]
    /\ UNCHANGED <<buf, off, sp, stack, tokens, error, lit, num, probe, ires, iter>>

AsList ==
    /\ pc = "ok" /\ handle.kind = "Any"
    /\ Refined("as_list", "List")

AsDict ==
    /\ pc = "ok" /\ handle.kind = "Any"
    /\ Refined("as_dict", "Dict")

AsInt ==
    /\ pc = "ok" /\ handle.kind = "Any"
    /\ Refined("as_int", "Int")

AsString ==
    /\ pc = "ok" /\ handle.kind = "Any"
    /\ Refined("as_string", "Str")

IsFresh(h) == h.cached_lookup = None /\ h.cached_size = None

Call(op, arg, r) ==
    /\ ret' = [op |-> op, arg |-> arg, fresh |-> IsFresh(handle), out |-> r.out]
    /\ handle' = [handle EXCEPT !.cached_lookup = r.cached_lookup,
                                !.cached_size = r.cached_size]
    /\ pc' = IF r.status = "ok" THEN pc ELSE r.status
    /\ UNCHANGED <<buf, off, sp, stack, tokens, error, lit, num, probe, ires, iter>>

Indices == 0..MaxIndex
FindKeys == {<<>>, <<BYTE_a>>, <<BYTE_b>>}

ListGet ==
    /\ pc = "ok" /\ handle.kind = "List" /\ iter.kind = "None"
    /\ \E index \in Indices : Call("list_get", index, list_get(tokens, handle, index))

ListLen ==
    /\ pc = "ok" /\ handle.kind = "List" /\ iter.kind = "None"
    /\ Call("list_len", <<>>, list_len(tokens, handle))

DictGet ==
    /\ pc = "ok" /\ handle.kind = "Dict" /\ iter.kind = "None"
    /\ \E index \in Indices : Call("dict_get", index, dict_get(tokens, buf, handle, index))

DictFind ==
    /\ pc = "ok" /\ handle.kind = "Dict" /\ iter.kind = "None"
    /\ \E key \in FindKeys : Call("dict_find", key, dict_find(tokens, buf, handle, key))

DictLen ==
    /\ pc = "ok" /\ handle.kind = "Dict" /\ iter.kind = "None"
    /\ Call("dict_len", <<>>, dict_len(tokens, handle))

IntValue ==
    /\ pc = "ok" /\ handle.kind = "Int"
    /\ LET r == int_value(tokens, buf, handle.token_idx)
       IN  Call("value", <<>>, Res(r.status, r.out, None, None))

IntAsBytes ==
    /\ pc = "ok" /\ handle.kind = "Int"
    /\ LET r == int_as_bytes(tokens, buf, handle.token_idx)
       IN  Call("int_as_bytes", <<>>, Res(r.status, r.out, None, None))

StringAsBytes ==
    /\ pc = "ok" /\ handle.kind = "Str"
    /\ LET r == string_as_bytes(tokens, buf, handle.token_idx)
       IN  Call("string_as_bytes", <<>>, Res(r.status, r.out, None, None))

\* iter() on the handle, next() and size_hint() on the iterator.  iter()
\* takes &self and reads cached_size; the iterator copies it and reads
\* nothing of the handle afterwards, nor the handle anything of the
\* iterator, so the caller's calls on the two are not interleaved here: the
\* handle is called again once the iterator is dropped.
ListIter ==
    /\ pc = "ok" /\ handle.kind = "List"
    /\ iter' = list_iter(handle)
    /\ ret' = [NoRet EXCEPT !.op = "list_iter"]
    /\ UNCHANGED <<buf, pc, off, sp, stack, tokens, error, handle, lit, num, probe, ires>>

DictIter ==
    /\ pc = "ok" /\ handle.kind = "Dict"
    /\ iter' = dict_iter(handle)
    /\ ret' = [NoRet EXCEPT !.op = "dict_iter"]
    /\ UNCHANGED <<buf, pc, off, sp, stack, tokens, error, handle, lit, num, probe, ires>>

IterCall(op, arg, r) ==
    /\ ret' = [op |-> op, arg |-> arg, fresh |-> FALSE, out |-> r.out]
    /\ iter' = r.it
    /\ pc' = IF r.status = "ok" THEN pc ELSE r.status
    /\ UNCHANGED <<buf, off, sp, stack, tokens, error, handle, lit, num, probe, ires>>

ListIterNext ==
    /\ pc = "ok" /\ iter.kind = "List"
    /\ IterCall("list_next", <<>>, list_iter_next(tokens, iter))

DictIterNext ==
    /\ pc = "ok" /\ iter.kind = "Dict"
    /\ IterCall("dict_next", <<>>, dict_iter_next(tokens, buf, iter))

SizeHint ==
    /\ pc = "ok" /\ iter.kind # "None"
    /\ \E build \in Builds : IterCall("size_hint", build, size_hint(iter, build))

\* the iterator goes out of scope
DropIter ==
    /\ pc = "ok" /\ iter.kind # "None"
    /\ iter' = NoIter
    /\ ret' = NoRet
    /\ UNCHANGED <<buf, pc, off, sp, stack, tokens, error, handle, lit, num, probe, ires>>

\* the token index of the handle the last call returned, if it returned one
ReturnedHandle ==
    IF ret.op \in {"list_get", "dict_find", "list_next"} /\ IsSome(ret.out)
    THEN Some(Unwrap(ret.out))
    ELSE IF ret.op \in {"dict_get", "dict_next"} /\ IsSome(ret.out)
    THEN Some(Unwrap(ret.out)[2])
    ELSE None

Take ==
    /\ pc = "ok" /\ IsSome(ReturnedHandle)
    /\ handle' = Handle("Any", Unwrap(ReturnedHandle))
    /\ iter' = NoIter
    /\ ret' = NoRet
    /\ UNCHANGED <<buf, pc, off, sp, stack, tokens, error, lit, num, probe, ires>>

Next ==
    \/ CallDecodeInt \/ CallCheckInteger \/ CallPrecheck \/ CallScanString
    \/ CallTokenNew \/ CallSetNextItem
    \/ Start \/ OpenDict \/ OpenList \/ ScanInt \/ CloseContainer \/ ScanString \/ Finish
    \/ GetRoot \/ AsList \/ AsDict \/ AsInt \/ AsString
    \/ ListGet \/ ListLen \/ DictGet \/ DictFind \/ DictLen
    \/ IntValue \/ IntAsBytes \/ StringAsBytes
    \/ ListIter \/ DictIter \/ ListIterNext \/ DictIterNext \/ SizeHint \/ DropIter
    \/ Take

Spec == Init /\ [][Next]_vars

\* bdecode is one uninterrupted call: once entered, its loop keeps running
ParseStep ==
    Start \/ OpenDict \/ OpenList \/ ScanInt \/ CloseContainer \/ ScanString \/ Finish

\* the caller before it has a buffer to decode
InitCaller ==
    /\ ParserIdle /\ pc = "idle" /\ probe = NoProbe
    /\ lit = <<>> /\ num = NoNum /\ ires = Pending

\* the caller enters bdecode with one of the buffers
CallBdecode ==
    /\ pc = "idle" /\ lit = <<>> /\ buf = <<>> /\ ires = Pending
    /\ \E in \in DecodeInputs : buf' = in.buf /\ num' = in.num
    /\ pc' = "start"
    /\ UNCHANGED <<off, sp, stack, tokens, error, handle, iter, ret, lit, ires, probe>>

\* a call of bdecode that has not returned takes its next step: the step
\* of a parse in progress is the only one that changes pc or off
Running ==
    /\ pc \in {"start", "scan", "after"}
    /\ pc' \in {"start", "scan", "after", "ok", "err", "panic"}
    /\ off' \in 0..Len(buf)

LiveNext == CallBdecode \/ ParseStep
LiveSpec == InitCaller /\ [][LiveNext]_vars /\ WF_<<pc, off>>(Running)

----------------------------------------------------------------------------
(* The encoding read off the bytes by its grammar, without the token       *)
(* array: what the properties below compare the handles' answers with.     *)
(* These are used on buffers bdecode accepted, at offsets where a value    *)
(* starts.                                                                 *)

RECURSIVE RefFind(_, _, _)
RefFind(b, p, byte) == IF At(b, p) = byte THEN p ELSE RefFind(b, p + 1, byte)

\* the decimal number written in b[p..q)
RECURSIVE RefNat(_, _, _)
RefNat(b, p, q) == IF q <= p THEN 0 ELSE 10 * RefNat(b, p, q - 1) + (At(b, q - 1) - 48)

\* the offset one past the value that starts at p
RECURSIVE RefEnd(_, _), RefBodyEnd(_, _)
RefEnd(b, p) ==
    CASE At(b, p) = BYTE_i -> RefFind(b, p, BYTE_e) + 1
      [] At(b, p) \in {BYTE_l, BYTE_d} -> RefBodyEnd(b, p + 1)
      [] OTHER -> RefFind(b, p, BYTE_colon) + 1 + RefNat(b, p, RefFind(b, p, BYTE_colon))

RefBodyEnd(b, p) == IF At(b, p) = BYTE_e THEN p + 1 ELSE RefBodyEnd(b, RefEnd(b, p))

\* the start offsets of the values of a container body that starts at p
RECURSIVE RefItems(_, _)
RefItems(b, p) == IF At(b, p) = BYTE_e THEN <<>> ELSE <<p>> \o RefItems(b, RefEnd(b, p))

RefKind(b, p) ==
    CASE At(b, p) = BYTE_d -> "Dict"
      [] At(b, p) = BYTE_l -> "List"
      [] At(b, p) = BYTE_i -> "Int"
      [] OTHER -> "Str"

\* the payload of the string at p, the literal of the integer at p
RefPayload(b, p) == Slice(b, RefFind(b, p, BYTE_colon) + 1, RefEnd(b, p))
RefLiteral(b, p) == Slice(b, p + 1, RefEnd(b, p) - 1)

\* the buffer offset of the value the caller's handle stands for
HandleOffset == At(tokens, handle.token_idx).offset

\* the same accessor on a handle made anew for the same container
FreshHandle == Handle(handle.kind, handle.token_idx)

IsDigits(s) == \A k \in 1..Len(s) : s[k] \in 48..57
Unsigned(s) == IF s # <<>> /\ s[1] = BYTE_minus THEN Tail(s) ELSE s

----------------------------------------------------------------------------
(* Properties.                                                             *)

\* C1: whatever len, get and find calls came before on the same handle,
\* get(i) returns what get(i) returns on a fresh handle for the container.
C1_GetAsOnFreshHandle ==
    /\ ret.op = "list_get" => ret.out = list_get(tokens, FreshHandle, ret.arg).out
    /\ ret.op = "dict_get" => ret.out = dict_get(tokens, buf, FreshHandle, ret.arg).out

\* C2: whatever len, get and find calls came before on the same handle,
\* len() returns the container's number of immediate elements, the value a
\* fresh handle returns.
C2_LenAsOnFreshHandle ==
    /\ ret.op = "list_len" =>
           /\ ret.out = list_len(tokens, FreshHandle).out
           /\ ret.out = Len(RefItems(buf, HandleOffset + 1))
    /\ ret.op = "dict_len" =>
           /\ ret.out = dict_len(tokens, FreshHandle).out
           /\ ret.out * 2 = Len(RefItems(buf, HandleOffset + 1))

\* C3: bdecode ends in Ok or Err, and neither it nor any traversal of a
\* decoded tree (len, get, find, iteration, as_bytes, value) indexes out of
\* bounds, fails an assertion, reaches an unreachable branch or loops.
C3_NoPanic == ~(pc \in {"panic", "hang"})

\* C4: on success the root's node_type is decided by the buffer's first
\* byte: Dict iff 'd', List iff 'l', Int iff 'i', Str iff a decimal digit,
\* and no accepted buffer starts with any other byte.
C4_RootKindFromFirstByte ==
    pc = "ok" =>
        /\ (node_type(tokens, 0) = "Dict") <=> (At(buf, 0) = BYTE_d)
        /\ (node_type(tokens, 0) = "List") <=> (At(buf, 0) = BYTE_l)
        /\ (node_type(tokens, 0) = "Int") <=> (At(buf, 0) = BYTE_i)
        /\ (node_type(tokens, 0) = "Str") <=> (At(buf, 0) \in 48..57)
        /\ At(buf, 0) \in {BYTE_d, BYTE_l, BYTE_i} \cup 48..57

\* a string root, refined from the root handle
C4_Witness ==
    /\ pc = "ok" /\ handle.token_idx = 0 /\ At(buf, 0) = 49
    /\ ret.op = "as_string" /\ IsSome(ret.out)

\* C5: the canonical rendering of an i64 n decodes to exactly n, as the
\* literal given to decode_int and as the buffer i<n>e given to bdecode
\* with value() on the root.
C5_IntegerRoundTrip ==
    num.prefix = "none" =>
        /\ ires.dec.err # "Pending" => ires.dec = Ok(num.n)
        /\ ~(pc \in {"err", "panic", "hang"})
        /\ ret.op = "value" => ret.out = Ok(num.n)

\* value() on the root of i-9223372036854775808e
C5_Witness ==
    /\ num.prefix = "none" /\ num.n = I64_MIN
    /\ ret.op = "value" /\ ret.out = Ok(I64_MIN)

\* C6: decode_int rejects a canonical rendering behind a space, a '0' or a
\* '+', the empty literal, a literal with a non-digit after an optional
\* leading '-', and (with LeadingZero) a literal of several digits whose
\* first digit is '0'; it accepts "0" with value 0.
C6_RejectsNonCanonical ==
    ires.dec.err # "Pending" =>
        /\ num.prefix \in {"space", "zero", "plus"} => ires.dec.err # "Ok"
        /\ lit = <<>> => ires.dec.err # "Ok"
        /\ ~IsDigits(Unsigned(lit)) => ires.dec.err # "Ok"
        /\ (/\ IsDigits(Unsigned(lit)) /\ Len(Unsigned(lit)) > 1
            /\ Unsigned(lit)[1] = BYTE_0) => ires.dec.err = "LeadingZero"
        /\ lit = <<BYTE_0>> => ires.dec = Ok(I64Zero)

\* the rendering of -7 behind a '0', rejected
C6_Witness ==
    /\ num.prefix = "zero" /\ num.n = I64(TRUE, 0, 0, 7)
    /\ lit = <<BYTE_0, BYTE_minus, BYTE_7>> /\ ires.dec.err = "LeadingZero"

\* C7: decode_int returns NegativeZero for "-0" and for no other literal,
\* and "0" decodes to 0.
C7_NegativeZeroOnlyForMinusZero ==
    ires.dec.err # "Pending" =>
        /\ (ires.dec.err = "NegativeZero") <=> (lit = <<BYTE_minus, BYTE_0>>)
        /\ lit = <<BYTE_0>> => ires.dec = Ok(I64Zero)

\* C8: a literal check_integer passes is one decode_int decodes: value()
\* is Ok on every Int node of every buffer bdecode accepts.
C8_CheckedIntegersDecode ==
    /\ ret.op = "value" => ret.out.err = "Ok"
    /\ (ires.chk = "Ok" /\ ires.dec.err # "Pending") => ires.dec.err = "Ok"

\* C9: on a fresh dict handle len() is the number of key/value pairs and
\* get(i), i below it, is the payload of the i-th key with a handle on the
\* i-th value, whose node_type, integer value and string bytes are those
\* of the encoded value.
C9_DictOnFreshHandle ==
    /\ (ret.op = "dict_len" /\ ret.fresh) =>
           ret.out * 2 = Len(RefItems(buf, HandleOffset + 1))
    /\ (ret.op = "dict_get" /\ ret.fresh) =>
           LET items == RefItems(buf, HandleOffset + 1) IN
           ret.arg * 2 < Len(items) =>
               /\ IsSome(ret.out)
               /\ Unwrap(ret.out)[1] = RefPayload(buf, items[2 * ret.arg + 1])
               /\ At(tokens, Unwrap(ret.out)[2]).offset = items[2 * ret.arg + 2]
               /\ node_type(tokens, Unwrap(ret.out)[2])
                      = RefKind(buf, items[2 * ret.arg + 2])
    /\ ret.op = "value" => ret.out = decode_int(RefLiteral(buf, HandleOffset))
    /\ ret.op = "string_as_bytes" => ret.out = RefPayload(buf, HandleOffset)

\* the second pair of a dict, its value a container
C9_Witness ==
    /\ ret.op = "dict_get" /\ ret.fresh /\ ret.arg = 1 /\ IsSome(ret.out)
    /\ node_type(tokens, Unwrap(ret.out)[2]) \in {"List", "Dict"}

\* C10: on a fresh list handle len() is the number of immediate elements,
\* get(i) for i below it is a handle on the i-th element whose node_type
\* matches the element's leading byte, and get(i) is None from there on.
C10_ListOnFreshHandle ==
    /\ (ret.op = "list_len" /\ ret.fresh) =>
           ret.out = Len(RefItems(buf, HandleOffset + 1))
    /\ (ret.op = "list_get" /\ ret.fresh) =>
           LET items == RefItems(buf, HandleOffset + 1) IN
           IF ret.arg < Len(items)
           THEN /\ IsSome(ret.out)
                /\ At(tokens, Unwrap(ret.out)).offset = items[ret.arg + 1]
                /\ node_type(tokens, Unwrap(ret.out)) = RefKind(buf, items[ret.arg + 1])
           ELSE ret.out = None

\* the second element of a list whose first element is a container
C10_Witness ==
    /\ ret.op = "list_get" /\ ret.fresh /\ ret.arg = 1 /\ IsSome(ret.out)
    /\ At(buf, HandleOffset + 1) \in {BYTE_l, BYTE_d}

\* whether the caller's handle stands for an empty list or dict
EmptyHandle ==
    /\ handle.kind \in {"List", "Dict"}
    /\ At(buf, HandleOffset + 1) = BYTE_e

\* C11: on an empty container, nested or not, len() is 0, get(i) and
\* find(k) are None and iteration yields no item, whatever calls came
\* before on the same handle.
C11_EmptyContainer ==
    EmptyHandle =>
        /\ pc = "ok"
        /\ ret.op \in {"list_get", "dict_get", "dict_find"} => ret.out = None
        /\ ret.op \in {"list_len", "dict_len"} => ret.out = 0
        /\ handle.kind = "List" => list_iter_next(tokens, list_iter(handle)).out = None
        /\ handle.kind = "Dict" => dict_iter_next(tokens, buf, dict_iter(handle)).out = None

\* len() on a nested empty dict after a get on the same handle
C11_Witness ==
    /\ EmptyHandle /\ handle.kind = "Dict" /\ handle.token_idx > 0
    /\ ret.op = "dict_len" /\ ret.out = 0 /\ ~ret.fresh

\* the pairs of the caller's dict handle whose key is k, as indices into
\* RefItems (pair i has its key at 2i + 1 and its value at 2i + 2)
PairsWithKey(k) ==
    LET items == RefItems(buf, HandleOffset + 1)
    IN  {i \in 0..((Len(items) \div 2) - 1) : RefPayload(buf, items[2 * i + 1]) = k}

SetMin(S) == CHOOSE x \in S : \A y \in S : x <= y

OpenToken == At(stack, sp - 1).token

RECURSIVE CountItems(_, _)
CountItems(T, t) ==
    IF t >= Len(T) THEN 0 ELSE 1 + CountItems(T, t + At(T, t).next_item)

Scanning == pc = "scan" /\ sp > 0
OpenKind == At(tokens, OpenToken).token_type
OpenItems == CountItems(tokens, OpenToken + 1)
ExpectsKey == Scanning /\ OpenKind = "Dict" /\ OpenItems % 2 = 0
ExpectsValue == Scanning /\ OpenKind = "Dict" /\ OpenItems % 2 = 1
Rejected(e) == pc' = "err" /\ error' = e

\* C13: when the scan ends at the end of the buffer with a container still
\* open, bdecode returns UnexpectedEof; and a closing 'e' met while no
\* container is open returns UnexpectedEof as well.
C13_UnexpectedEof ==
    [][/\ (pc = "after" /\ sp > 0) => (off >= Len(buf) /\ Rejected("UnexpectedEof"))
       /\ (pc = "scan" /\ sp = 0 /\ At(buf, off) = BYTE_e) => Rejected("UnexpectedEof")
       /\ (pc = "start" /\ buf \in {<<BYTE_d>>, <<BYTE_l>>})
              => bdecode(buf).error = "UnexpectedEof"]_vars

\* "lde" cut after the inner dictionary: the list is still open at the end
C13_Witness ==
    /\ pc = "err" /\ error = "UnexpectedEof"
    /\ sp = 1 /\ off = Len(buf) /\ Len(tokens) = 3

\* C14: while the innermost open container is a dictionary that expects a
\* key, a byte that is neither a digit nor 'e' makes bdecode return
\* ExpectedDigit with no token appended for it; an 'e' closes the
\* dictionary, and a digit goes on to the string arm, which alone decides.
C14_KeyMustBeString ==
    [][ExpectsKey =>
          CASE At(buf, off) = BYTE_e -> pc' # "err" /\ sp' = sp - 1
            [] is_numeric(At(buf, off)) -> pc' = "err" => tokens' = tokens
            [] OTHER -> Rejected("ExpectedDigit") /\ tokens' = tokens]_vars

\* an integer where the second key of a dictionary should be
C14_Witness ==
    /\ pc = "err" /\ error = "ExpectedDigit"
    /\ sp > 0 /\ At(buf, off) = BYTE_i
    /\ CountItems(tokens, OpenToken + 1) = 2

\* C15: a closing 'e' while the innermost open container is a dictionary
\* that has a key without its value returns ExpectedValue; a closing 'e'
\* in any other state of an open container closes that container.
C15_CloseNeedsValue ==
    [][(Scanning /\ At(buf, off) = BYTE_e) =>
          IF ExpectsValue
          THEN Rejected("ExpectedValue") /\ tokens' = tokens
          ELSE /\ pc' \in {"scan", "after"}
               /\ sp' = sp - 1
               /\ off' = off + 1
               /\ Len(tokens') = Len(tokens) + 1]_vars

\* a dictionary inside a list closed right after its first key
C15_Witness ==
    /\ pc = "err" /\ error = "ExpectedValue"
    /\ sp = 2 /\ At(buf, off) = BYTE_e
    /\ CountItems(tokens, OpenToken + 1) = 1

\* ---------------------------------------------------------------------
\* A string start: the byte under the cursor goes to the string arm
StringStart ==
    /\ pc = "scan"
    /\ At(buf, off) \notin {BYTE_d, BYTE_l, BYTE_i, BYTE_e}
    /\ ExpectsKey => is_numeric(At(buf, off))
HasColon == \E k \in off..(Len(buf) - 1) : At(buf, k) = BYTE_colon
ColonAt == RefFind(buf, off, BYTE_colon)
LengthPrefix == Slice(buf, off, ColonAt)
\* a canonical decimal numeral, short enough to be evaluated
ValidPrefix ==
    /\ LengthPrefix # <<>> /\ IsDigits(LengthPrefix) /\ Len(LengthPrefix) <= 9
    /\ Len(LengthPrefix) > 1 => LengthPrefix[1] # BYTE_0
DeclaredLength == RefNat(buf, off, ColonAt)
Remaining == Len(buf) - (ColonAt + 1)
StringAccepted ==
    /\ pc' # "err"
    /\ off' = ColonAt + 1 + DeclaredLength
    /\ Len(tokens') = Len(tokens) + 1
    /\ At(tokens', Len(tokens)).token_type = "Str"

\* C16: a string with a valid length prefix n and ':' fails with
\* UnexpectedEof exactly when n exceeds the bytes remaining after the ':';
\* every string that fits, a zero-length one at the very end of the buffer
\* included, is accepted with the cursor moved past its n payload bytes; a
\* string start with no ':' in the rest of the buffer fails with
\* ExpectedColon.
C16_StringFits ==
    [][StringStart =>
          CASE ~HasColon -> Rejected("ExpectedColon")
            [] HasColon /\ ValidPrefix ->
                  IF DeclaredLength > Remaining
                  THEN Rejected("UnexpectedEof")
                  ELSE StringAccepted
            [] OTHER -> TRUE]_vars

\* what the scanner does instead: a string whose ':' is the last byte of
\* the buffer is refused even when its declared length is zero
C16_StringFitsUnlessColonLast ==
    [][StringStart =>
          CASE ~HasColon -> Rejected("ExpectedColon")
            [] HasColon /\ ValidPrefix ->
                  IF DeclaredLength > Remaining \/ Remaining = 0
                  THEN Rejected("UnexpectedEof")
                  ELSE StringAccepted
            [] OTHER -> TRUE]_vars

\* the zero-length string alone in the buffer, refused
C16_EmptyStringAtEnd ==
    /\ buf = <<BYTE_0, BYTE_colon>>
    /\ pc = "err" /\ error = "UnexpectedEof"

\* ---------------------------------------------------------------------
\* bdecode has returned and nothing has been called on its result yet
Returned == pc \in {"ok", "err"} /\ handle.kind = "None" /\ iter.kind = "None"
\* bdecode has just returned Ok; no later call changes buf or tokens
Parsed == Returned /\ pc = "ok"

\* The bytes of a string node and of an integer node, read off the buffer
\* at the node's offset
StrColon(t) == RefFind(buf, At(tokens, t).offset, BYTE_colon)
StrLength(t) == RefNat(buf, At(tokens, t).offset, StrColon(t))
IntEnd(t) == RefFind(buf, At(tokens, t).offset, BYTE_e)
NodesOf(kind) == {t \in 0..(Len(tokens) - 1) : At(tokens, t).token_type = kind}

\* C17: for every Str node of a decoded tree as_bytes() returns the n
\* payload bytes after the ':' of its length prefix, n being the declared
\* length, as a sub-range of the buffer; for every Int node as_bytes()
\* returns the bytes strictly between its 'i' and its terminating 'e'.
C17_AsBytes ==
    /\ Parsed =>
        /\ \A t \in NodesOf("Str") :
               /\ StrColon(t) + 1 + StrLength(t) <= Len(buf)
               /\ string_as_bytes(tokens, buf, t)
                      = [status |-> "ok",
                         out |-> Slice(buf, StrColon(t) + 1,
                                       StrColon(t) + 1 + StrLength(t))]
        /\ \A t \in NodesOf("Int") :
               /\ At(buf, At(tokens, t).offset) = BYTE_i
               /\ int_as_bytes(tokens, buf, t)
                      = [status |-> "ok",
                         out |-> Slice(buf, At(tokens, t).offset + 1, IntEnd(t))]
    /\ ret.op = "string_as_bytes" =>
           ret.out = string_as_bytes(tokens, buf, handle.token_idx).out
    /\ ret.op = "int_as_bytes" =>
           ret.out = int_as_bytes(tokens, buf, handle.token_idx).out

\* a ten-byte string in a list, its length prefix two digits long
C17_Witness ==
    /\ ret.op = "string_as_bytes" /\ handle.token_idx = 1
    /\ ret.out = [k \in 1..10 |-> BYTE_a]

\* ---------------------------------------------------------------------
BufHead(k) == SubSeq(buf, 1, k)

C19_LengthLimits ==
    /\ probe.out \notin {"None", "Pending"} =>
           /\ probe.out = CASE probe.len = 0 -> "UnexpectedEof"
                             [] probe.len > 536870911 -> "LimitExceeded"
                             [] OTHER -> "Ok"
           /\ probe.out = "Ok" =>
                  /\ IsSome(Token_new(probe.len, "End", probe.len, 0))
                  /\ IsSome(set_next_item(Unwrap(Token_new(0, "List", 0, 0)), probe.len))
    /\ (pc \in {"scan", "after", "err"} \/ Parsed) =>
           /\ Len(buf) = 0 => (pc = "err" /\ error = "UnexpectedEof" /\ tokens = <<>>)
           /\ error # "LimitExceeded"
           /\ Len(tokens) <= Len(buf) + 1
           /\ \A t \in 1..Len(tokens) :
                  /\ tokens[t].offset <= Len(buf)
                  /\ tokens[t].next_item <= Len(tokens)

\* the longest buffer that is let through to the scan
C19_Witness == probe.len = 536870911 /\ probe.out = "Ok"

\* ---------------------------------------------------------------------
\* the kind each refinement asks for
AsKind == [as_list |-> "List", as_dict |-> "Dict", as_int |-> "Int", as_string |-> "Str"]

\* C20: on every untyped handle exactly one of as_list, as_dict, as_int
\* and as_string returns Some, the one that matches node_type(); the
\* others return None without a panic and leave the handle as it was, so
\* that another refinement can be tried on it.
C20_ExactlyOneRefinement ==
    [][(handle.kind = "Any" /\ ret'.op \in DOMAIN AsKind) =>
          /\ node_type(tokens, handle.token_idx) \in {"List", "Dict", "Int", "Str"}
          /\ pc' = "ok"
          /\ IsSome(ret'.out) <=> AsKind[ret'.op] = node_type(tokens, handle.token_idx)
          /\ IsSome(ret'.out) =>
                 handle' = Handle(AsKind[ret'.op], handle.token_idx)
          /\ ~IsSome(ret'.out) =>
                 /\ handle' = handle
                 /\ ENABLED AsList /\ ENABLED AsDict /\ ENABLED AsInt /\ ENABLED AsString]_vars

\* as_int() refused on a nested handle, which is still there to refine
C20_Witness ==
    /\ ret.op = "as_int" /\ ret.out = None
    /\ handle.kind = "Any" /\ handle.token_idx > 0
    /\ node_type(tokens, handle.token_idx) = "Dict"

\* ---------------------------------------------------------------------
\* The container the iterator was made from is the handle the caller still
\* holds.  get(k) of a fresh handle on it, and the true element count
Iterating == pc = "ok" /\ iter.kind # "None"
FreshGet(k) ==
    IF handle.kind = "List" THEN list_get(tokens, FreshHandle, k).out
    ELSE dict_get(tokens, buf, FreshHandle, k).out
IterNext ==
    IF iter.kind = "List" THEN list_iter_next(tokens, iter)
    ELSE dict_iter_next(tokens, buf, iter)
TrueCount ==
    IF handle.kind = "List" THEN Len(RefItems(buf, HandleOffset + 1))
    ELSE Len(RefItems(buf, HandleOffset + 1)) \div 2

\* C21: the iterator of a list or dict handle, in any cache state, yields
\* get(0), get(1), ..., get(n-1) of a fresh handle in order and then None
\* for ever; every iter() starts at the first child; making an iterator
\* and calling next() on it leave the handle's two caches as they were.
C21_IterYieldsGetSequence ==
    /\ [](Iterating =>
            /\ iter.kind = handle.kind
            /\ iter.num_traversed <= TrueCount
            /\ IterNext.status = "ok"
            /\ IterNext.out = FreshGet(iter.num_traversed)
            /\ iter.num_traversed = TrueCount =>
                   IterNext.out = None /\ IterNext.it = iter
            /\ (ret.op \in {"list_next", "dict_next"} /\ IsSome(ret.out)) =>
                   ret.out = FreshGet(iter.num_traversed - 1)
            /\ (ret.op \in {"list_next", "dict_next"} /\ ~IsSome(ret.out)) =>
                   iter.num_traversed = TrueCount)
    /\ [][/\ iter'.kind # "None" => handle' = handle
          /\ ret'.op \in {"list_iter", "dict_iter"} =>
                 /\ iter'.token_idx = handle.token_idx + 1
                 /\ iter'.num_traversed = 0]_vars

\* a two-pair dictionary iterated to its end on a handle whose caches an
\* earlier get had filled
C21_Witness ==
    /\ Iterating /\ handle.kind = "Dict"
    /\ ret.op = "dict_next" /\ ret.out = None
    /\ iter.num_traversed = 2
    /\ handle.cached_lookup # None

\* ---------------------------------------------------------------------
Container == pc = "ok" /\ handle.kind \in {"List", "Dict"}

\* C22: over every sequence of get, len and find calls on a list or dict
\* handle, a memoized size that is set equals the container's true element
\* count (pairs for a dict); so it does after a get that returned None for
\* an index out of range.
C22_MemoizedSizeIsTrue ==
    (Container /\ IsSome(handle.cached_size)) =>
        Unwrap(handle.cached_size) = TrueCount

\* get(1) on a fresh handle of a one-pair dictionary: None, and a size of 0
C22_SizeOneShort ==
    /\ Container /\ handle.kind = "Dict" /\ TrueCount = 1
    /\ ret.op = "dict_get" /\ ret.arg = 1 /\ ret.fresh /\ ret.out = None
    /\ handle.cached_size = Some(0)

\* ---------------------------------------------------------------------
\* the token that sits at the offset of the container's k-th child
ChildOffsets == RefItems(buf, HandleOffset + 1)
TokenAtOffset(o) == CHOOSE t \in 0..(Len(tokens) - 1) : At(tokens, t).offset = o
ElementToken(index) ==
    IF handle.kind = "List" THEN TokenAtOffset(ChildOffsets[index + 1])
    ELSE TokenAtOffset(ChildOffsets[2 * index + 1])
CachedToken == Unwrap(handle.cached_lookup)[1]
CachedIndex == Unwrap(handle.cached_lookup)[2]

\* C23: over every sequence of get, len and find calls on a list or dict
\* handle, a lookup cache that is set holds (token, index) with index >= 1
\* and token the position of the container's index-th element (index-th
\* key for a dict); the cache is consulted only for a request at or beyond
\* the cached index.
C23_LookupCacheIsTrue ==
    /\ [](Container /\ IsSome(handle.cached_lookup) =>
            /\ CachedIndex >= 1
            /\ CachedIndex < TrueCount
            /\ CachedToken = ElementToken(CachedIndex))
    /\ [][(Container /\ IsSome(handle.cached_lookup)
             /\ ret'.op \in {"list_get", "dict_get"} /\ ret' # ret
             /\ use_cached_lookup(handle, ret'.arg))
            => ret'.arg >= CachedIndex]_vars

\* get(2) then get(1) on a list of three: the cache says element 1 is at
\* the token of element 2
C23_StaleCache ==
    /\ Container /\ handle.kind = "List" /\ TrueCount = 3
    /\ ret.op = "list_get" /\ ret.arg = 1
    /\ handle.cached_lookup = Some(<<ElementToken(2), 1>>)

\* ---------------------------------------------------------------------
\* the End token a sibling walk from token t stops at
RECURSIVE WalkToEnd(_, _)
WalkToEnd(T, t) ==
    IF ~InRange(T, t) THEN Len(T)
    ELSE IF At(T, t).token_type = "End" THEN t
    ELSE IF At(T, t).next_item <= 0 THEN Len(T)
    ELSE WalkToEnd(T, t + At(T, t).next_item)

Containers == NodesOf("List") \cup NodesOf("Dict")
\* the token that closes the container at p, found from the bytes: the
\* End token at the offset of the container's closing 'e'
ClosingToken(p) == TokenAtOffset(RefEnd(buf, At(tokens, p).offset) - 1)

\* C24: on a successful parse every List or Dict token at p has
\* next_item >= 2, the token at p + next_item - 1 is the End that closes
\* that container and p + next_item is the node after it; every Str and
\* Int token has next_item = 1; and the sibling walk from p + 1 stops at
\* that container's own End.
C24_NextItemLinks ==
    Parsed =>
        /\ \A p \in Containers :
               /\ At(tokens, p).next_item >= 2
               /\ InRange(tokens, p + At(tokens, p).next_item)
               /\ At(tokens, p + At(tokens, p).next_item - 1).token_type = "End"
               /\ p + At(tokens, p).next_item - 1 = ClosingToken(p)
               /\ At(tokens, p + At(tokens, p).next_item).offset
                      = RefEnd(buf, At(tokens, p).offset)
               /\ WalkToEnd(tokens, p + 1) = ClosingToken(p)
        /\ \A t \in NodesOf("Str") \cup NodesOf("Int") : At(tokens, t).next_item = 1

\* a list holding a one-pair dictionary and one more element
C24_Witness ==
    /\ Parsed /\ Len(tokens) = 8
    /\ At(tokens, 0).token_type = "List" /\ At(tokens, 0).next_item = 7
    /\ At(tokens, 1).token_type = "Dict" /\ At(tokens, 1).next_item = 4
    /\ At(tokens, 5).token_type = "Str"

\* ---------------------------------------------------------------------
\* the immediate children of a container, walked by next_item from token t
RECURSIVE Children(_, _)
Children(T, t) ==
    IF ~InRange(T, t) \/ At(T, t).token_type = "End" \/ At(T, t).next_item <= 0
    THEN <<>>
    ELSE <<t>> \o Children(T, t + At(T, t).next_item)

\* C25: on a successful parse the immediate children of every Dict token
\* are even in number and every child in an even position is a Str token;
\* so the assertions of BencodeDict::get, find and len never fail.
C25_DictChildrenPaired ==
    /\ Parsed =>
           \A p \in NodesOf("Dict") :
               /\ Len(Children(tokens, p + 1)) % 2 = 0
               /\ \A k \in 1..Len(Children(tokens, p + 1)) :
                      k % 2 = 1 => At(tokens, Children(tokens, p + 1)[k]).token_type = "Str"
    /\ ret.op \in {"dict_get", "dict_find", "dict_len"} => pc = "ok"

\* a dictionary of two pairs, the first value a list
C25_Witness ==
    /\ Parsed /\ At(tokens, 0).token_type = "Dict"
    /\ Len(Children(tokens, 1)) = 4
    /\ At(tokens, Children(tokens, 1)[2]).token_type = "List"

\* ---------------------------------------------------------------------
\* C26: on a successful parse the last entry of the token array is an End
\* token, the only token whose next_item is 0, and its offset is the
\* length of the buffer.
C26_FinalSentinel ==
    Parsed =>
        /\ tokens # <<>>
        /\ At(tokens, Len(tokens) - 1).token_type = "End"
        /\ \A t \in 0..(Len(tokens) - 1) :
               At(tokens, t).next_item = 0 <=> t = Len(tokens) - 1
        /\ At(tokens, Len(tokens) - 1).offset = Len(buf)

\* what the scanner does: the sentinel sits where the scan stopped, at the
\* end of the top-level value
C26_SentinelAtEndOfValue ==
    Parsed =>
        /\ tokens # <<>>
        /\ At(tokens, Len(tokens) - 1).token_type = "End"
        /\ \A t \in 0..(Len(tokens) - 1) :
               At(tokens, t).next_item = 0 <=> t = Len(tokens) - 1
        /\ At(tokens, Len(tokens) - 1).offset = RefEnd(buf, 0)
        /\ At(tokens, Len(tokens) - 1).offset = off

\* an empty list followed by one more byte
C26_SentinelBeforeEnd ==
    /\ Parsed /\ buf = <<BYTE_l, BYTE_e, BYTE_e>>
    /\ At(tokens, Len(tokens) - 1).offset = 2

\* ---------------------------------------------------------------------
InParse == pc \in {"scan", "after", "err"} \/ Parsed

\* C27: at every step of the scan and on success the token offsets
\* strictly increase along the token array, closing End tokens and the
\* final sentinel included; every offset is at most the buffer length; and
\* there are at most as many tokens as bytes consumed, plus one.
C27_OffsetsIncrease ==
    InParse =>
        /\ \A t \in 1..(Len(tokens) - 1) : tokens[t].offset < tokens[t + 1].offset
        /\ \A t \in 1..Len(tokens) : tokens[t].offset <= Len(buf)
        /\ Len(tokens) <= off + 1
        /\ pc \in {"scan", "after"} => Len(tokens) <= off
        /\ off <= Len(buf)

\* two nested empty lists: one token for every byte, and the sentinel
C27_Witness ==
    /\ Parsed /\ buf = <<BYTE_l, BYTE_l, BYTE_e, BYTE_e>>
    /\ Len(tokens) = 5 /\ off = 4

\* ---------------------------------------------------------------------
\* the innermost container still open, read from the token array: the last
\* List or Dict token not yet back-patched
SetMax(S) == CHOOSE x \in S : \A y \in S : y <= x
LastOpen == SetMax({t \in Containers : At(tokens, t).next_item = 0})
Appended == Len(tokens') = Len(tokens) + 1

\* C28: during the parse a step appends exactly one token or fails; a
\* step that closes a container changes, besides appending the End token,
\* only the next_item of that container's opening token, from 0 to the
\* token count minus its index; every other field of every token already
\* appended stays as it was.
C28_AppendOnly ==
    [][(pc \in {"scan", "after"} /\ pc' # "err") =>
          /\ Appended
          /\ IF pc = "scan" /\ At(buf, off) = BYTE_e
             THEN /\ At(tokens, LastOpen).next_item = 0
                  /\ At(tokens', Len(tokens)).token_type = "End"
                  /\ \A t \in 1..Len(tokens) :
                         tokens'[t] = IF t = LastOpen + 1
                                      THEN [tokens[t] EXCEPT
                                               !.next_item = Len(tokens') - LastOpen]
                                      ELSE tokens[t]
             ELSE SubSeq(tokens', 1, Len(tokens)) = tokens]_vars

\* an inner list of one element closed while the outer list is open
C28_Witness ==
    /\ pc = "scan" /\ sp = 1 /\ Len(tokens) = 4
    /\ At(tokens, 1).token_type = "List" /\ At(tokens, 1).next_item = 3
    /\ At(tokens, 0).next_item = 0
    /\ At(tokens, 3).token_type = "End"

\* ---------------------------------------------------------------------
\* the containers opened and not yet closed, outermost first, read from
\* the token array
RECURSIVE SortedSeq(_)
SortedSeq(S) == IF S = {} THEN <<>> ELSE <<SetMin(S)>> \o SortedSeq(S \ {SetMin(S)})
OpenContainers == SortedSeq({t \in Containers : At(tokens, t).next_item = 0})

\* the children appended so far to the container whose first child would
\* be token t; a child that is itself still open is the last one
RECURSIVE CountAppended(_, _)
CountAppended(T, t) ==
    IF t >= Len(T) THEN 0
    ELSE IF At(T, t).next_item = 0 THEN 1
    ELSE 1 + CountAppended(T, t + At(T, t).next_item)

FrameStateOf(t) == IF CountAppended(tokens, t + 1) % 2 = 0 THEN "Key" ELSE "Value"

\* C29: at the start of every scan step the stack depth is the number of
\* containers opened and not yet closed, each frame holds the token index
\* of its container, and a dictionary's frame is in state Key exactly when
\* an even number of children have been appended to it (an open nested
\* container counts); toggling a frame flips its state and keeps its token
\* index; the parse succeeds exactly when the depth is back at zero.
C29_StackMirrorsOpenContainers ==
    /\ [](pc = "scan" =>
            /\ sp = Len(OpenContainers)
            /\ Len(stack) = sp
            /\ \A k \in 1..sp :
                   /\ stack[k].token = OpenContainers[k]
                   /\ At(tokens, stack[k].token).token_type = "Dict"
                          => stack[k].state = FrameStateOf(stack[k].token)
                   /\ toggle_state(stack[k]).token = stack[k].token
                   /\ toggle_state(stack[k]).state # stack[k].state
                   /\ toggle_state(toggle_state(stack[k])) = stack[k])
    /\ [](pc = "ok" => sp = 0 /\ OpenContainers = <<>>)
    /\ [][pc = "after" => (pc' = "ok" <=> sp = 0)]_vars

\* inside a dictionary that is the value of the first key of another: the
\* outer frame expects a key, the inner one a value
C29_Witness ==
    /\ pc = "scan" /\ sp = 2
    /\ At(tokens, stack[1].token).token_type = "Dict" /\ stack[1].state = "Key"
    /\ At(tokens, stack[2].token).token_type = "Dict" /\ stack[2].state = "Value"

\* ---------------------------------------------------------------------
\* C30: find(k) neither reads nor writes the handle's caches: on a dict
\* handle in any cache state, for every key, cached_lookup and cached_size
\* are the same after the call, and the result is the one a fresh handle
\* gives.
C30_FindLeavesCaches ==
    /\ [](Container /\ handle.kind = "Dict" =>
            \A key \in FindKeys :
                dict_find(tokens, buf, handle, key)
                    = Res("ok", dict_find(tokens, buf, FreshHandle, key).out,
                          handle.cached_lookup, handle.cached_size))
    /\ [][ret'.op = "dict_find" =>
             /\ handle' = handle
             /\ ret'.out = dict_find(tokens, buf, FreshHandle, ret'.arg).out]_vars

\* find on a handle whose two caches earlier calls had filled
C30_Witness ==
    /\ ret.op = "dict_find" /\ IsSome(ret.out) /\ ~ret.fresh
    /\ IsSome(handle.cached_lookup) /\ IsSome(handle.cached_size)

\* ---------------------------------------------------------------------
InBdecode == pc \in {"start", "scan", "after"}

\* C31: bdecode terminates on every input, each scan step returning an
\* error or moving the cursor forward by at least one byte; and on a
\* decoded tree len, get, find and iteration terminate: every token
\* visited on a sibling chain before the container's End has
\* next_item >= 1 and the walk stops at that End, so the loops of len (from
\* the first child or from any child a cache can name), get and find all
\* return.
C31_Terminates ==
    /\ (pc = "start") ~> ~InBdecode
    /\ [][pc = "scan" => (pc' = "err" \/ off' > off)]_<<pc, off>>
    /\ [](pc = "scan" => off < Len(buf))
    /\ [](pc = "ok" =>
            \A p \in Containers :
                /\ InRange(tokens, WalkToEnd(tokens, p + 1))
                /\ \A k \in 1..Len(Children(tokens, p + 1)) :
                       /\ At(tokens, Children(tokens, p + 1)[k]).next_item >= 1
                       /\ len_loop(tokens, Children(tokens, p + 1)[k], k - 1).status = "ok"
                /\ len_loop(tokens, p + 1, 0).status = "ok"
                /\ \A index \in Indices :
                       list_get_loop(tokens, p + 1, 0, index).status = "ok"
                /\ At(tokens, p).token_type = "Dict" =>
                       \A key \in FindKeys :
                           dict_find_loop(tokens, buf, p + 1, key).status = "ok")

\* a decoded tree with a container of three children, the last scan step
\* having moved the cursor
C31_Witness ==
    /\ pc = "ok" /\ off = Len(buf)
    /\ \E p \in Containers : Len(Children(tokens, p + 1)) >= 3

\* ---------------------------------------------------------------------
\* an optional single '-', then digits without a leading zero; "0" is the
\* one literal that starts with '0' ("-0" is not a number's rendering)
WellFormedLiteral(l) ==
    /\ Unsigned(l) # <<>> /\ IsDigits(Unsigned(l))
    /\ (Unsigned(l)[1] # BYTE_0 \/ l = <<BYTE_0>>)

\* the digits of 2^63 - 1 and of 2^63
DigitsOfMax == <<57, 50, 50, 51, 51, 55, 50, 48, 51, 54, 56, 53, 52, 55, 55, 53, 56, 48, 55>>
DigitsOfMinMagnitude == [DigitsOfMax EXCEPT ![19] = 56]

\* u > v for digit strings of equal length
DigitsGreater(u, v) ==
    \E k \in 1..Len(u) : u[k] > v[k] /\ \A j \in 1..(k - 1) : u[j] = v[j]

\* the value of a well-formed literal lies outside -2^63 .. 2^63 - 1
OutsideI64(l) ==
    \/ Len(Unsigned(l)) > 19
    \/ /\ Len(Unsigned(l)) = 19
       /\ DigitsGreater(Unsigned(l),
                         IF l[1] = BYTE_minus THEN DigitsOfMinMagnitude ELSE DigitsOfMax)

\* C32: on a well-formed literal decode_int returns Overflow exactly when
\* the value lies outside the signed 64-bit range and otherwise the exact
\* value (the one whose decimal rendering is the literal); -2^63 decodes,
\* 2^63 and -2^63 - 1 give Overflow.
C32_OverflowExactly ==
    (ires.dec.err # "Pending" /\ WellFormedLiteral(lit)) =>
        /\ OutsideI64(lit) => ires.dec = Err("Overflow")
        /\ ~OutsideI64(lit) => ires.dec.err = "Ok" /\ to_string(ires.dec.val) = lit
        /\ lit = <<BYTE_minus>> \o DigitsOfMinMagnitude => ires.dec = Ok(I64_MIN)
        /\ lit \in {DigitsOfMinMagnitude, <<BYTE_minus>> \o [DigitsOfMax EXCEPT ![19] = 57]}
              => ires.dec = Err("Overflow")

\* decode_int has returned -2^63 for its literal
C32_Witness ==
    /\ lit = <<BYTE_minus>> \o DigitsOfMinMagnitude
    /\ ires.dec = Ok(I64_MIN) /\ ires.chk # "Pending"

\* decode_int has returned Overflow for 2^63
C32_WitnessOverflow ==
    lit = DigitsOfMinMagnitude /\ ires.dec = Err("Overflow")

\* ---------------------------------------------------------------------
\* the scan is at an 'i' that the key check lets through
AtInt == pc = "scan" /\ At(buf, off) = BYTE_i /\ ~ExpectsKey
HasEnd == \E k \in off..(Len(buf) - 1) : At(buf, k) = BYTE_e
\* the offset of the first 'e' at or after the cursor, and the bytes
\* between the 'i' and it
IntEndAt == RefFind(buf, off, BYTE_e)
IntLiteral == Slice(buf, off + 1, IntEndAt)
\* the number a literal of digits names, zeros in front dropped, fits i64
ValueFits(l) ==
    /\ Unsigned(l) # <<>> /\ IsDigits(Unsigned(l))
    /\ ~OutsideI64((IF l[1] = BYTE_minus THEN <<BYTE_minus>> ELSE <<>>)
                     \o StripZeros(Unsigned(l)))

\* the step of the 'i' arm apart from the claim's last-but-one clause
IntArmSteps ==
    /\ ~HasEnd => Rejected("UnexpectedEof")
    /\ HasEnd =>
          /\ IntLiteral = <<>> => pc' = "err"
          /\ (IntLiteral # <<>> /\ (Unsigned(IntLiteral) = <<>> \/ ~IsDigits(Unsigned(IntLiteral))))
                => Rejected("ExpectedDigit")
          /\ (IntLiteral # <<>> /\ IsDigits(Unsigned(IntLiteral)) /\ Len(Unsigned(IntLiteral)) > 20
               /\ Unsigned(IntLiteral)[1] # BYTE_0) => Rejected("Overflow")
          /\ pc' = "err" => tokens' = tokens
          /\ pc' # "err" =>
                /\ tokens' = Append(tokens, Unwrap(Token_new(off, "Int", 1, 1)))
                /\ off' = IntEndAt + 1

\* C33: at an 'i', no 'e' in the rest of the buffer gives UnexpectedEof; an
\* empty literal is rejected; a lone '-' or a non-digit after the optional
\* '-' gives ExpectedDigit; digits too many for i64 give Overflow, and the
\* coarse check never rejects a literal whose value fits; otherwise exactly
\* one Int token with next_item 1 is appended and the cursor moves just
\* past that 'e'.
C33_IntArm ==
    [][AtInt =>
          /\ IntArmSteps
          /\ (HasEnd /\ ValueFits(IntLiteral)) => pc' # "err"]_vars

\* the same step with the last clause kept to literals without a zero in front
C33_IntArmCanonical ==
    [][AtInt =>
          /\ IntArmSteps
          /\ (HasEnd /\ ValueFits(IntLiteral) /\ WellFormedLiteral(IntLiteral)) => pc' # "err"]_vars

\* ---------------------------------------------------------------------
\* the string arm has run on the sized buffer
StringProbed == pc = "string" /\ probe.out # "Pending"
\* the bytes its length prefix and the ':' occupy, and the payload's length
PrefixAndColon == Len(lit) + 1
PayloadLength == PowerOfTen(Len(lit) - 1)
\* the buffer passes the length checks and holds the whole string
HoldsString == probe.out = "Ok" /\ probe.len >= PrefixAndColon + PayloadLength
StringRejected(e) == probe.st.pc = "err" /\ probe.st.error = e
StringStored(header) ==
    /\ probe.st.pc = "scan"
    /\ probe.st.tokens = <<[offset |-> 0, token_type |-> "Str", next_item |-> 1,
                            header |-> header]>>
    /\ probe.st.off = PrefixAndColon + PayloadLength

C34_WitnessRejected ==
    StringProbed /\ HoldsString /\ PrefixAndColon = 10 /\ StringRejected("LimitExceeded")

\* ---------------------------------------------------------------------
ValueKinds == {"Dict", "List", "Str", "Int"}
OnValue(t) == InRange(tokens, t) /\ At(tokens, t).token_type \in ValueKinds

\* C35: an End token is never seen through a handle: the handle held, from
\* get_root, get, find or an iterator and in any cache state, and every
\* handle a call returns refer to a Dict, List, Str or Int token, so that
\* node_type never reaches its unreachable branch (the one panic there is is
\* size_hint's assertion); the value of a pair returned by get, find or
\* iteration on a dict is never an End token.
C35_NoEndHandle ==
    /\ handle.kind # "None" =>
          /\ OnValue(handle.token_idx)
          /\ node_type(tokens, handle.token_idx) \in ValueKinds
    /\ IsSome(ReturnedHandle) => OnValue(Unwrap(ReturnedHandle))
    /\ iter.kind # "None" => InRange(tokens, iter.token_idx)
    /\ pc = "panic" => ret.op = "size_hint"

\* a pair returned by get on a dict whose caches were already set
C35_Witness ==
    /\ pc = "ok" /\ ret.op = "dict_get" /\ ~ret.fresh
    /\ IsSome(ReturnedHandle)
    /\ At(tokens, Unwrap(ReturnedHandle) + At(tokens, Unwrap(ReturnedHandle)).next_item).token_type
          = "End"

\* ---------------------------------------------------------------------
\* C36: for every iterator made by iter(), in any cache state, when its
\* precalculated size is Some(s) the number of items yielded never exceeds
\* s, so that the assertion num_traversed <= size of size_hint holds, the
\* lower bound s - num_traversed does not underflow, and that lower bound
\* is the number of items still to be yielded.
C36_SizeBoundsTraversal ==
    /\ (Iterating /\ IsSome(iter.precalculated_size)) =>
          /\ iter.num_traversed <= Unwrap(iter.precalculated_size)
          /\ Unwrap(iter.precalculated_size) - iter.num_traversed
                = TrueCount - iter.num_traversed
          /\ ret.op = "size_hint" =>
                ret.out = <<u32_sub(TrueCount - iter.num_traversed), iter.precalculated_size>>
    /\ ~(pc = "panic" /\ ret.op = "size_hint")

\* ---------------------------------------------------------------------
\* C37: Token::new(offset, kind, next_item, header) returns LimitExceeded
\* exactly when offset > 2^29 - 1 or next_item > 2^29 - 1 or header > 7;
\* otherwise offset(), token_type(), next_item() and header() of the token
\* return the values given.  set_next_item(v) with v <= 2^29 - 1 makes
\* next_item() return v and leaves offset, kind and header as they were;
\* with v > 2^29 - 1 it returns LimitExceeded and leaves the token as it was.
FieldLimit == PowerOfTwo(29) - 1
FieldsOf(inner) ==
    <<Token_offset(inner), Token_token_type(inner), Token_next_item(inner), Token_header(inner)>>
TokenNewAsStated ==
    (pc = "token" /\ ret.op = "Token::new") =>
        /\ ret.out = None <=>
              \/ ret.arg[1] > FieldLimit
              \/ ret.arg[3] > FieldLimit
              \/ ret.arg[4] > 7
        /\ error = "LimitExceeded" <=> ret.out = None
        /\ IsSome(ret.out) => FieldsOf(Unwrap(ret.out)) = ret.arg
        /\ IsSome(ret.out) =>
              Token_new(ret.arg[1], ret.arg[2], ret.arg[3], ret.arg[4])
                 = Some([offset |-> Token_offset(Unwrap(ret.out)),
                         token_type |-> Token_token_type(Unwrap(ret.out)),
                         next_item |-> Token_next_item(Unwrap(ret.out)),
                         header |-> Token_header(Unwrap(ret.out))])
SetNextItemAsStated ==
    (pc = "token" /\ ret.op = "Token::new" /\ ret'.op = "set_next_item") =>
        IF ret'.arg[1] <= FieldLimit
        THEN /\ error' = "None"
             /\ FieldsOf(Unwrap(ret'.out))
                   = [FieldsOf(Unwrap(ret.out)) EXCEPT ![3] = ret'.arg[1]]
        ELSE /\ error' = "LimitExceeded"
             /\ ret'.out = ret.out
C37_TokenFields == [](TokenNewAsStated) /\ [][SetNextItemAsStated]_vars

\* the token of test_token_fields after set_next_item(29312)
C37_Witness ==
    /\ pc = "token" /\ ret.op = "set_next_item" /\ ret.arg = <<29312>> /\ error = "None"
    /\ FieldsOf(Unwrap(ret.out)) = <<42, "Dict", 29312, 7>>

\* a token with every field at its limit, and a set_next_item past it
C37_WitnessLimit ==
    /\ pc = "token" /\ ret.op = "set_next_item" /\ error = "LimitExceeded"
    /\ FieldsOf(Unwrap(ret.out)) = <<FieldLimit, "End", FieldLimit, 7>>

====
